---- MODULE Spec2Model ----
(***************************************************************************)
(* Conditional-date expando node (expando/node_conddate.c): parsing of a   *)
(* "[count]period" condition, the two cutoff computations and the render   *)
(* callback that compares a timestamp with the cutoff.                     *)
(*                                                                         *)
(* Time is a count of seconds since 1970-01-01 00:00:00 UTC.  Local time   *)
(* is UTC plus a fixed offset gmtoff (a zone without daylight saving), so  *)
(* localtime_r and mktime are calendar conversions shifted by gmtoff.      *)
(* Strings are sequences of one-character strings; a pointer into a string *)
(* is a 0-based offset, and the byte at offset Len(buf) is the NUL.        *)
(*                                                                         *)
(* Further down: the render call with all its arguments (SpecRender), the  *)
(* format-string parser as the tests of test/expando use it (SpecExpando), *)
(* and the tree of quote styles of color/qstyle.c (SpecQuote).             *)
(***************************************************************************)
EXTENDS Integers, Sequences, FiniteSets, TLC

VARIABLES now, gmtoff, rdata, args, node, parsed_until, error, last, aborted,
          call, prev, exp, qs, menu, state, dlg, exam

vars == <<now, gmtoff, rdata, args, node, parsed_until, error, last, aborted,
          call, prev, exp, qs, menu, state, dlg, exam>>

\* The state of the file browser (browser/dlg_browser.c)
dialogs == <<menu, state, dlg, exam>>

\* The state of the format-string parser's callers, of the quote-style list
\* and of the file browser, which the conditional-date node does not touch
others == <<call, prev, exp, qs, dialogs>>

(* ------------------------------ bounds --------------------------------- *)

\* Render is modelled for nodes whose count is at most MaxCount
MaxCount == 13
\* Number of bytes of the format string that follow the period character
MaxRest == 1

(* ----------------------------- constants ------------------------------- *)

USHRT_MAX == 65535
SecsPerMin == 60
SecsPerHour == 3600
SecsPerDay == 86400
DaysPerWeek == 7
TmYearBase == 1900

NUL == "NUL"
NULLPTR == -1
NULL == <<>>
ENT_CONDDATE == "ENT_CONDDATE"

Digits == {"0", "1", "2", "3", "4", "5", "6", "7", "8", "9"}
PeriodChars == {"y", "m", "w", "d", "H", "M"}

DigitVal(c) ==
  CASE c = "0" -> 0 [] c = "1" -> 1 [] c = "2" -> 2 [] c = "3" -> 3
    [] c = "4" -> 4 [] c = "5" -> 5 [] c = "6" -> 6 [] c = "7" -> 7
    [] c = "8" -> 8 [] c = "9" -> 9

(* ------------------------- calendar (libc) ----------------------------- *)

IsLeap(y) == (y % 4 = 0 /\ y % 100 # 0) \/ y % 400 = 0

\* Days in month mon (0 = January) of year y
DaysInMonth(y, mon) ==
  CASE mon = 1 -> IF IsLeap(y) THEN 29 ELSE 28
    [] mon \in {3, 5, 8, 10} -> 30
    [] OTHER -> 31

\* Days from 1970-01-01 to the first day of March of year y
DaysToMarch(y) ==
  (y \div 400) * 146097 + (y % 400) * 365 + (y % 400) \div 4 - (y % 400) \div 100
    - 719468

\* Days from 1970-01-01 to day d of month m (1..12) of year y; d may lie
\* outside the month, it is a plain offset from the month's first day.
DaysFromCivil(y, m, d) ==
  DaysToMarch(IF m <= 2 THEN y - 1 ELSE y) + (153 * ((m + 9) % 12) + 2) \div 5 + d - 1

\* The date of day doy (0 = March 1st) of the year that starts in March of y,
\* mp being its month counted from March
CivilOfMp(y, doy, mp) ==
  [year |-> IF mp < 10 THEN y ELSE y + 1,
   mon  |-> IF mp < 10 THEN mp + 3 ELSE mp - 9,
   mday |-> doy - (153 * mp + 2) \div 5 + 1]

CivilOfDoy(y, doy) == CivilOfMp(y, doy, (5 * doy + 2) \div 153)

\* yoe is the year of the 400-year era, doe the day of the era
CivilOfYoe(era, doe, yoe) ==
  CivilOfDoy(yoe + era * 400, doe - (365 * yoe + yoe \div 4 - yoe \div 100))

CivilOfDoe(era, doe) ==
  CivilOfYoe(era, doe,
             (doe - doe \div 1460 + doe \div 36524 - doe \div 146096) \div 365)

\* The calendar date of day z (days since 1970-01-01)
CivilFromDays(z) == CivilOfDoe((z + 719468) \div 146097, (z + 719468) % 146097)

\* The broken-down time of second sod of the day with calendar date c
TmOf(c, sod) ==
  [tm_year |-> c.year - TmYearBase, tm_mon |-> c.mon - 1, tm_mday |-> c.mday,
   tm_hour |-> sod \div SecsPerHour,
   tm_min  |-> (sod % SecsPerHour) \div SecsPerMin,
   tm_sec  |-> sod % SecsPerMin]

\* localtime_r: broken-down local time of t (tm_year counts from 1900,
\* tm_mon from 0)
localtime_r(t, off) ==
  TmOf(CivilFromDays((t + off) \div SecsPerDay), (t + off) % SecsPerDay)

\* Months from year 0 to the month of tm, whose tm_mon may lie outside 0..11
TmMonths(tm) == (tm.tm_year + TmYearBase) * 12 + tm.tm_mon

\* mktime: the instant of a broken-down local time whose fields may lie
\* outside their ranges; months carry into years, and days, hours, minutes
\* and seconds are plain offsets.
mktime(tm, off) ==
  (DaysFromCivil(TmMonths(tm) \div 12, (TmMonths(tm) % 12) + 1, 1) + tm.tm_mday - 1)
      * SecsPerDay
    + tm.tm_hour * SecsPerHour + tm.tm_min * SecsPerMin + tm.tm_sec - off

(* ------------------------------ strings -------------------------------- *)

\* The byte at offset i of the NUL-terminated string buf
CharAt(buf, i) == IF i < Len(buf) THEN buf[i + 1] ELSE NUL

\* The string that starts at offset i of buf (what "%s" prints)
StrFrom(buf, i) == IF i < Len(buf) THEN SubSeq(buf, i + 1, Len(buf)) ELSE <<>>

isdigit(c) == c \in Digits

\* strchr(s, c) != NULL: the terminator of s counts as one of its bytes,
\* so searching for NUL finds it.
strchr(s, c) == c \in s \/ c = NUL

RECURSIVE DigitsEnd(_, _)
\* Offset of the first byte at or after i that is not a digit
DigitsEnd(buf, i) == IF isdigit(CharAt(buf, i)) THEN DigitsEnd(buf, i + 1) ELSE i

RECURSIVE DigitsValue(_, _, _, _)
\* Value of the decimal digits buf[i..j), saturated just above USHRT_MAX
DigitsValue(buf, i, j, acc) ==
  IF i >= j THEN acc
  ELSE LET v == acc * 10 + DigitVal(CharAt(buf, i))
       IN  DigitsValue(buf, i + 1, j, IF v > USHRT_MAX THEN USHRT_MAX + 1 ELSE v)

\* mutt_str_atous: convert the leading decimal number of the string at offset
\* i to an unsigned short.  Returns the offset after the number, or NULLPTR
\* when the value does not fit.
mutt_str_atous(buf, i) ==
  LET e == DigitsEnd(buf, i)
      v == DigitsValue(buf, i, e, 0)
  IN  IF v > USHRT_MAX THEN [end_ptr |-> NULLPTR, number |-> 0]
      ELSE [end_ptr |-> e, number |-> v]

(* ------------------------------- clock --------------------------------- *)

mutt_date_now == now

(* ------------------------- node_conddate.c ----------------------------- *)

node_conddate_private_new(count, period) == [count |-> count, period |-> period]

\* Mutant: a month is taken to be 30 days
cutoff_number_flat_month(period, count) ==
  LET tm == localtime_r(mutt_date_now, gmtoff)
  IN  mktime(CASE period = "y" -> [tm EXCEPT !.tm_year = @ - count]
               [] period = "m" -> [tm EXCEPT !.tm_mday = @ - (30 * count)]
               [] period = "w" -> [tm EXCEPT !.tm_mday = @ - (DaysPerWeek * count)]
               [] period = "d" -> [tm EXCEPT !.tm_mday = @ - count]
               [] period = "H" -> [tm EXCEPT !.tm_hour = @ - count]
               [] period = "M" -> [tm EXCEPT !.tm_min  = @ - count]
               [] OTHER        -> tm,
             gmtoff)

\* Mutant: a week is counted as one day
cutoff_number_week_as_day(period, count) ==
  LET tm == localtime_r(mutt_date_now, gmtoff)
  IN  mktime(CASE period = "y" -> [tm EXCEPT !.tm_year = @ - count]
               [] period = "m" -> [tm EXCEPT !.tm_mon  = @ - count]
               [] period = "w" -> [tm EXCEPT !.tm_mday = @ - count]
               [] period = "d" -> [tm EXCEPT !.tm_mday = @ - count]
               [] period = "H" -> [tm EXCEPT !.tm_hour = @ - count]
               [] period = "M" -> [tm EXCEPT !.tm_min  = @ - count]
               [] OTHER        -> tm,
             gmtoff)

cutoff_number(period, count) ==
  LET tm == localtime_r(mutt_date_now, gmtoff)
  IN  mktime(CASE period = "y" -> [tm EXCEPT !.tm_year = @ - count]
               [] period = "m" -> [tm EXCEPT !.tm_mon  = @ - count]
               [] period = "w" -> [tm EXCEPT !.tm_mday = @ - (DaysPerWeek * count)]
               [] period = "d" -> [tm EXCEPT !.tm_mday = @ - count]
               [] period = "H" -> [tm EXCEPT !.tm_hour = @ - count]
               [] period = "M" -> [tm EXCEPT !.tm_min  = @ - count]
               [] OTHER        -> tm,
             gmtoff)

\* Mutant: every case of the switch ends with a break
cutoff_this_no_fallthrough(period) ==
  LET tm == localtime_r(mutt_date_now, gmtoff)
  IN  mktime([tm_year |-> tm.tm_year,
              tm_mon  |-> IF period = "y" THEN 0 ELSE tm.tm_mon,
              tm_mday |-> IF period \in {"m", "w"} THEN 1 ELSE tm.tm_mday,
              tm_hour |-> IF period = "d" THEN 0 ELSE tm.tm_hour,
              tm_min  |-> IF period = "H" THEN 0 ELSE tm.tm_min,
              tm_sec  |-> IF period = "M" THEN 0 ELSE tm.tm_sec],
             gmtoff)

\* Mutant: 'w' is handled like 'm'
cutoff_this_week_as_month(period) ==
  LET tm == localtime_r(mutt_date_now, gmtoff)
  IN  mktime([tm_year |-> tm.tm_year,
              tm_mon  |-> IF period = "y" THEN 0 ELSE tm.tm_mon,
              tm_mday |-> IF period \in {"y", "m", "w"} THEN 1 ELSE tm.tm_mday,
              tm_hour |-> IF period \in {"y", "m", "w", "d"} THEN 0 ELSE tm.tm_hour,
              tm_min  |-> IF period \in {"y", "m", "w", "d", "H"} THEN 0 ELSE tm.tm_min,
              tm_sec  |-> IF period \in {"y", "m", "w", "d", "H", "M"} THEN 0
                          ELSE tm.tm_sec],
             gmtoff)

\* The cases of the switch fall through from 'y' down to 'M'; 'w' stands
\* apart after them.
cutoff_this(period) ==
  LET tm == localtime_r(mutt_date_now, gmtoff)
  IN  mktime([tm_year |-> tm.tm_year,
              tm_mon  |-> IF period = "y" THEN 0 ELSE tm.tm_mon,
              tm_mday |-> IF period \in {"y", "m", "w"} THEN 1 ELSE tm.tm_mday,
              tm_hour |-> IF period \in {"y", "m", "d"} THEN 0 ELSE tm.tm_hour,
              tm_min  |-> IF period \in {"y", "m", "d", "H"} THEN 0 ELSE tm.tm_min,
              tm_sec  |-> IF period \in {"y", "m", "d", "H", "M"} THEN 0 ELSE tm.tm_sec],
             gmtoff)

\* find_get_number: the first entry of the sentinel-terminated table that
\* matches (did, uid) and has a get_number callback; 0 when there is none.
RECURSIVE find_get_number(_, _, _, _)
find_get_number(rd, i, did, uid) ==
  IF i > Len(rd) \/ rd[i].did = -1 THEN 0
  ELSE IF rd[i].did = did /\ rd[i].uid = uid /\ rd[i].get_number THEN i
  ELSE find_get_number(rd, i + 1, did, uid)

\* Mutant: the comparison accepts a timestamp equal to the cutoff
conddate_compare_ge(t_test, t_cutoff) == IF t_test >= t_cutoff THEN 1 ELSE 0

\* The comparison on the last line of node_conddate_render
conddate_compare(t_test, t_cutoff) == IF t_test > t_cutoff THEN 1 ELSE 0

\* Mutant: the cutoff of "n periods ago" is used for count 0 as well
conddate_cutoff_number_only(priv) == cutoff_number(priv.period, priv.count)

\* The choice of the cutoff in node_conddate_render
conddate_cutoff(priv) ==
  IF priv.count = 0 THEN cutoff_this(priv.period)
  ELSE cutoff_number(priv.period, priv.count)

node_conddate_render_unasserted(n, rd, t) ==
  LET m == find_get_number(rd, 1, n.did, n.uid)
  IN  IF n.type # ENT_CONDDATE \/ m = 0
      THEN [asserted |-> FALSE, calls |-> 0, t_test |-> 0, t_cutoff |-> 0, ret |-> 0]
      ELSE [asserted |-> FALSE, calls |-> 1, t_test |-> t,
            t_cutoff |-> conddate_cutoff(n.ndata),
            ret |-> conddate_compare(t, conddate_cutoff(n.ndata))]

\* node_conddate_render: n is the node, t is what the matched get_number
\* callback returns for the data context.  The result records whether an
\* assertion failed, the locals and the return value.
node_conddate_render(n, rd, t) ==
  LET m == find_get_number(rd, 1, n.did, n.uid)
  IN  IF n.type # ENT_CONDDATE \/ m = 0
      THEN [asserted |-> TRUE, calls |-> 0, t_test |-> 0, t_cutoff |-> 0, ret |-> 0]
      ELSE LET t_test   == t
               t_cutoff == conddate_cutoff(n.ndata)
           IN  [asserted |-> FALSE, calls |-> 1, t_test |-> t_test,
                t_cutoff |-> t_cutoff, ret |-> conddate_compare(t_test, t_cutoff)]

\* Mutant: did and uid are stored the wrong way round
node_conddate_new_swapped(count, period, did, uid) ==
  [type |-> ENT_CONDDATE, did |-> uid, uid |-> did,
   ndata |-> node_conddate_private_new(count, period)]

node_conddate_new(count, period, did, uid) ==
  [type |-> ENT_CONDDATE, did |-> did, uid |-> uid,
   ndata |-> node_conddate_private_new(count, period)]

InvalidNumber == "Invalid number: %s"
InvalidPeriod == "Invalid time period: '%c', must be one of 'ymwdHM'"

\* Mutant: only a failed conversion is an invalid number
conddate_bad_number_no_max(conv) == conv.end_ptr = NULLPTR

\* The test after mutt_str_atous: the conversion failed or gave USHRT_MAX
conddate_bad_number(conv) == conv.end_ptr = NULLPTR \/ conv.number = USHRT_MAX

\* The test of the period: c is not one of the bytes strchr finds in "ymwdHM"
conddate_bad_period(c) == ~strchr(PeriodChars, c)

\* The "Invalid number" return: the error is set, nothing else is touched
parse_fail_number(buf, s, pu) ==
  [ret |-> NULL, parsed_until |-> pu, allocs |-> 0, err_writes |-> 1,
   error |-> [position |-> s, message |-> <<InvalidNumber, StrFrom(buf, s)>>]]

\* Mutant: *parsed_until is advanced before the period is checked
parse_fail_period_advanced(buf, p, pu) ==
  [ret |-> NULL, parsed_until |-> p + 1, allocs |-> 0, err_writes |-> 1,
   error |-> [position |-> p, message |-> <<InvalidPeriod, <<CharAt(buf, p)>> >>]]

\* The "Invalid time period" return, p being the offset after the count
parse_fail_period(buf, p, pu) ==
  [ret |-> NULL, parsed_until |-> pu, allocs |-> 0, err_writes |-> 1,
   error |-> [position |-> p, message |-> <<InvalidPeriod, <<CharAt(buf, p)>> >>]]

\* The successful return: *parsed_until is set and the node is created (the
\* node and its private data are the two allocations)
parse_ok(buf, p, count, did, uid, err) ==
  [ret |-> <<node_conddate_new(count, CharAt(buf, p), did, uid)>>,
   parsed_until |-> p + 1, allocs |-> 2, err_writes |-> 0, error |-> err]

\* node_conddate_parse on the string at offset s of buf.  pu and err are the
\* caller's *parsed_until and *error on entry; the result holds them on
\* return, with the returned node (NULL or <<node>>), the number of
\* allocations made and the number of times the error was written.
node_conddate_parse(buf, s, pu, did, uid, err) ==
  LET digit == isdigit(CharAt(buf, s))
      conv  == mutt_str_atous(buf, s)
      count == IF digit THEN conv.number ELSE 0
      p     == IF digit THEN conv.end_ptr ELSE s
  IN  IF digit /\ conddate_bad_number(conv) THEN parse_fail_number(buf, s, pu)
      ELSE IF conddate_bad_period(CharAt(buf, p)) THEN parse_fail_period(buf, p, pu)
      ELSE parse_ok(buf, p, count, did, uid, err)

(* ------------------------------- inputs -------------------------------- *)

\* A broken-down time written with the calendar year and month
Tm(y, mo, d, h, mi, s) ==
  [tm_year |-> y - TmYearBase, tm_mon |-> mo - 1, tm_mday |-> d,
   tm_hour |-> h, tm_min |-> mi, tm_sec |-> s]

\* The local times at which the program runs
NowTms ==
  { Tm(2023, 3, 31, 12, 34, 56),   \* the 31st of a month after a 28-day month
    Tm(2024, 3, 31, 0, 0, 0),      \* exactly midnight, leap year
    Tm(2024, 2, 29, 23, 59, 59),   \* leap day, last second
    Tm(2024, 1, 1, 0, 0, 0),       \* first instant of a year
    Tm(2024, 5, 31, 6, 7, 8),      \* the 31st of a month after a 30-day month
    Tm(2024, 7, 15, 8, 0, 30) }

\* Offsets of local time from UTC, in seconds
TzOffsets == {0, 19800}

\* Dispatch tables (ExpandoRenderData[]), each ended by the did = -1 sentinel
RdEntry(did, uid, gs, gn) ==
  [did |-> did, uid |-> uid, get_string |-> gs, get_number |-> gn]

RenderTables ==
  { << RdEntry(1, 2, FALSE, TRUE), RdEntry(2, 1, TRUE, TRUE),
       RdEntry(-1, -1, FALSE, FALSE) >>,
    << RdEntry(1, 2, TRUE, FALSE), RdEntry(1, 2, FALSE, TRUE),
       RdEntry(-1, -1, FALSE, FALSE), RdEntry(2, 1, TRUE, TRUE) >> }

\* The (did, uid) pairs a caller passes to the parser
Keys == { <<1, 2>>, <<2, 1>> }

\* Format strings: text before the condition, the digits of the count, the
\* byte after them, and the rest of the string
Prefixes == { <<>>, <<"[">> }

DigitRuns ==
  { <<>>, <<"0">>, <<"1">>, <<"2">>, <<"1", "3">>, <<"0", "0", "7">>,
    <<"6", "5", "5", "3", "4">>, <<"6", "5", "5", "3", "5">>,
    <<"6", "5", "5", "3", "6">>, <<"9", "9", "9", "9", "9">> }

AfterChars == PeriodChars \cup {"x", "?"}

Rests == { [i \in 1..k |-> "?"] : k \in 0..MaxRest }

Tails == { <<>> } \cup { <<c>> \o r : c \in AfterChars, r \in Rests }

\* All format strings, as (string, offset of the condition)
ParseInputs ==
  { [buf |-> pre \o run \o tail, s |-> Len(pre)] :
      pre \in Prefixes, run \in DigitRuns, tail \in Tails }

\* The format strings used where the parsed node is rendered
RenderRuns == { <<>>, <<"1">>, <<"2">>, <<"1", "3">>, <<"1", "4">> }

RenderInputs ==
  { [buf |-> run \o tail, s |-> 0] :
      run \in RenderRuns, tail \in { <<>>, <<"x">> } \cup { <<c>> : c \in PeriodChars } }

\* The arguments of the last node_conddate_parse call, before any call
NoArgs == [buf |-> <<>>, s |-> 0, did |-> 0, uid |-> 0]

\* A zeroed struct ExpandoParseError
ZeroError == [position |-> NULLPTR, message |-> <<"", <<>> >>]

NoCall ==
  [op |-> "none", ret |-> 0, allocs |-> 0, err_writes |-> 0, calls |-> 0,
   t_test |-> 0, t_cutoff |-> 0]

\* Dates a get_number callback reports: around the node's cutoff, and now
Timestamps(n) ==
  { conddate_cutoff(n.ndata) + e : e \in {-1, 0, 1} } \cup { now }

(* --------------------------- state machine ----------------------------- *)

\* No node->render() call has been recorded
NoRender ==
  [made |-> FALSE, node |-> NULL, buf_in |-> <<>>, buf_out |-> <<>>,
   max_cols |-> 0, cols_used |-> 0, data |-> NULL, flags |-> 0, clock |-> 0,
   asserted |-> FALSE, returned |-> FALSE, callbacks |-> <<>>,
   node_out |-> NULL, ret |-> 0]

\* No earlier node->render() call has returned
NoEarlier == [made |-> FALSE, data |-> NULL, flags |-> 0, clock |-> 0, ret |-> 0]

\* No format string has been parsed
NoExpando ==
  [made |-> FALSE, test |-> "none", block |-> 0, string |-> <<>>, parts |-> NULL,
   node |-> NULL, err |-> "", ok |-> FALSE, passed |-> FALSE]

\* The pager before any line was classified: an empty quote list, level 0
NoQuotes ==
  [heap |-> <<>>, quote_list |-> 0, q_level |-> 0, redraw_in |-> FALSE,
   force_redraw |-> FALSE, ret |-> 0, qptr |-> <<>>]

\* No browser menu, no browser state, no dialog, no directory examined
NoMenu ==
  [entry |-> <<>>, is_mailbox_list |-> FALSE, links |-> {}, sel |-> 0, act |-> 0,
   ret |-> 0, sum |-> 0]

NoState ==
  [made |-> FALSE, is_mailbox_list |-> FALSE, entry |-> <<>>, op |-> "none",
   nc |-> NULL, queued |-> {}, ret |-> 0]

\* An empty struct Buffer: { 0 }
BufferZero == [data |-> NULL, dsize |-> 0]

NoDialog ==
  [pc |-> "none", run |-> 0, priv |-> NULL, dialog |-> FALSE, observers |-> {},
   focus |-> "index", old_focus |-> "index", op |-> 0, rc |-> "none",
   offered |-> <<>>, left |-> "none", nc |-> NULL, ret |-> 0,
   done |-> FALSE, LastDir |-> BufferZero, LastDirBackup |-> BufferZero,
   lastdir_done |-> FALSE, calls |-> 0]

NoExamine ==
  [pc |-> "none", OptNews |-> FALSE, dirname |-> <<>>, st |-> "none", rc |-> 0,
   inited |-> FALSE, entry |-> <<>>, is_mailbox_list |-> FALSE]

OthersInit ==
  /\ call = NoRender
  /\ prev = NoEarlier
  /\ exp = NoExpando
  /\ qs = NoQuotes
  /\ menu = NoMenu
  /\ state = NoState
  /\ dlg = NoDialog
  /\ exam = NoExamine

Init ==
  /\ OthersInit
  /\ gmtoff \in TzOffsets
  /\ now \in { mktime(tm, gmtoff) : tm \in NowTms }
  /\ rdata \in RenderTables
  /\ args = NoArgs
  /\ node = NULL
  /\ parsed_until = NULLPTR
  /\ error = ZeroError
  /\ last = NoCall
  /\ aborted = FALSE

\* A caller zeroes its ExpandoParseError and calls node_conddate_parse on
\* one of the strings of In
ParseCall(In) ==
  /\ ~aborted
  /\ \E in \in In, k \in Keys :
       LET r == node_conddate_parse(in.buf, in.s, parsed_until, k[1], k[2], ZeroError)
       IN  /\ args' = [buf |-> in.buf, s |-> in.s, did |-> k[1], uid |-> k[2]]
           /\ node' = r.ret
           /\ parsed_until' = r.parsed_until
           /\ error' = r.error
           /\ last' = [NoCall EXCEPT !.op = "parse", !.allocs = r.allocs,
                                     !.err_writes = r.err_writes]
  /\ UNCHANGED <<now, gmtoff, rdata, aborted>>

ParseOf(In) == ParseCall(In) /\ UNCHANGED others

Parse == ParseOf(RenderInputs)

\* The renderer calls node->render() of the parsed node
Render ==
  /\ ~aborted
  /\ node # NULL
  /\ node[1].ndata.count <= MaxCount
  /\ \E t \in Timestamps(node[1]) :
       LET r == node_conddate_render(node[1], rdata, t)
       IN  /\ aborted' = r.asserted
           /\ last' = [NoCall EXCEPT !.op = "render", !.ret = r.ret, !.calls = r.calls,
                                     !.t_test = r.t_test, !.t_cutoff = r.t_cutoff]
  /\ UNCHANGED <<now, gmtoff, rdata, args, node, parsed_until, error>>
  /\ UNCHANGED others

\* Time passes
Tick ==
  /\ ~aborted
  /\ \E tm \in NowTms : mktime(tm, gmtoff) > now /\ now' = mktime(tm, gmtoff)
  /\ last' = NoCall
  /\ UNCHANGED <<gmtoff, rdata, args, node, parsed_until, error, aborted>>
  /\ UNCHANGED others

Next == Parse \/ Render \/ Tick

Spec == Init /\ [][Next]_vars

(* The parser alone, on every format string, at one time and place *)

InitParse ==
  /\ OthersInit
  /\ gmtoff = 0
  /\ now = mktime(Tm(2024, 7, 15, 8, 0, 30), 0)
  /\ rdata = << RdEntry(-1, -1, FALSE, FALSE) >>
  /\ args = NoArgs
  /\ node = NULL
  /\ parsed_until = NULLPTR
  /\ error = ZeroError
  /\ last = NoCall
  /\ aborted = FALSE

ParseAny == ParseOf(ParseInputs)

NextParse == ParseAny

SpecParse == InitParse /\ [][NextParse]_vars

(* =========================== properties ================================ *)

\* The last call was node_conddate_render, it returned, and the node it
\* rendered has this count and period
Rendered(count, period) ==
  /\ last.op = "render"
  /\ ~aborted
  /\ node[1].ndata.count = count
  /\ node[1].ndata.period = period

\* The broken-down local time of now, and of the cutoff the last render used
NowTm == localtime_r(now, gmtoff)
CutoffTm == localtime_r(last.t_cutoff, gmtoff)

\* Seconds since local midnight
SecOfDay(t) == (t + gmtoff) % SecsPerDay

\* Local midnight of the current day
StartOfDay == now - SecOfDay(now)

Bool(b) == IF b THEN 1 ELSE 0

(* ------------------------------- C1 ------------------------------------ *)

\* C1 as stated: a node with count 0 and period 'd' renders true if and only
\* if the timestamp is on or after local midnight of the current day.
C1_OnOrAfterMidnight ==
  Rendered(0, "d") => (last.ret = 1 <=> last.t_test >= StartOfDay)

\* C1 (amended): a node with count 0 and period 'd' renders true if and only
\* if the timestamp is strictly after local midnight of the current day; a
\* timestamp equal to local midnight renders false.
C1_AfterMidnight ==
  Rendered(0, "d") => (last.ret = 1 <=> last.t_test > StartOfDay)

\* A timestamp exactly at local midnight was rendered, at a time of day that
\* is not midnight, and the result was false
C1_Witness ==
  /\ Rendered(0, "d")
  /\ last.t_test = StartOfDay
  /\ now > StartOfDay
  /\ last.ret = 0

(* ------------------------------- C2 ------------------------------------ *)

\* The month (counted from year 0) that lies n periods ('m' or 'y') before
\* the current month
TargetMonths(period, n) ==
  TmMonths(NowTm) - (IF period = "y" THEN 12 * n ELSE n)

\* Number of days of the month with index mi (months counted from year 0)
DaysInMonths(mi) == DaysInMonth(mi \div 12, mi % 12)

Min(a, b) == IF a < b THEN a ELSE b

\* The instant with the time of day of now on day mday of month mi
AtDayOfMonth(mi, mday) ==
  mktime([tm_year |-> (mi \div 12) - TmYearBase, tm_mon |-> mi % 12, tm_mday |-> mday,
          tm_hour |-> NowTm.tm_hour, tm_min |-> NowTm.tm_min, tm_sec |-> NowTm.tm_sec],
         gmtoff)

\* "now minus n periods" with a missing day of the month clamped to the last
\* day of the target month
ClampedCutoff(period, n) ==
  CASE period = "M" -> now - n * SecsPerMin
    [] period = "H" -> now - n * SecsPerHour
    [] period = "d" -> now - n * SecsPerDay
    [] period = "w" -> now - n * DaysPerWeek * SecsPerDay
    [] OTHER ->
         AtDayOfMonth(TargetMonths(period, n),
                      Min(NowTm.tm_mday, DaysInMonths(TargetMonths(period, n))))

\* "now minus n periods" with the days beyond the end of the target month
\* carried into the month after it
RolledCutoff(period, n) ==
  CASE period = "M" -> now - n * SecsPerMin
    [] period = "H" -> now - n * SecsPerHour
    [] period = "d" -> now - n * SecsPerDay
    [] period = "w" -> now - n * DaysPerWeek * SecsPerDay
    [] OTHER ->
         IF NowTm.tm_mday <= DaysInMonths(TargetMonths(period, n))
         THEN AtDayOfMonth(TargetMonths(period, n), NowTm.tm_mday)
         ELSE AtDayOfMonth(TargetMonths(period, n) + 1,
                           NowTm.tm_mday - DaysInMonths(TargetMonths(period, n)))

\* C2 as stated: for count n > 0 the node renders true iff the timestamp is
\* strictly after now minus n periods, the cutoff being clamped to the last
\* day of the target month when the day of the month does not exist there,
\* so that it never lies in a later month.
C2_ClampedToMonthEnd ==
  \A p \in PeriodChars : \A n \in 1..MaxCount :
    Rendered(n, p) =>
      /\ last.ret = Bool(last.t_test > ClampedCutoff(p, n))
      /\ p \in {"m", "y"} => TmMonths(CutoffTm) = TargetMonths(p, n)

\* C2 (amended): for count n > 0 the node renders true iff the timestamp is
\* strictly after now minus n periods, where a day of the month that does not
\* exist in the target month is carried into the following month (one month
\* before March 31 is March 3, or March 2 in a leap year).
C2_RolledIntoNextMonth ==
  \A p \in PeriodChars : \A n \in 1..MaxCount :
    Rendered(n, p) =>
      /\ last.ret = Bool(last.t_test > RolledCutoff(p, n))
      /\ (p \in {"m", "y"} /\ NowTm.tm_mday > DaysInMonths(TargetMonths(p, n))) =>
           /\ TmMonths(CutoffTm) = TargetMonths(p, n) + 1
           /\ CutoffTm.tm_mday = NowTm.tm_mday - DaysInMonths(TargetMonths(p, n))

\* One month before March 31 was rendered: the cutoff is in March, and a
\* timestamp one second after it rendered true
C2_Witness ==
  /\ Rendered(1, "m")
  /\ NowTm.tm_mon = 2 /\ NowTm.tm_mday = 31
  /\ CutoffTm.tm_mon = 2 /\ CutoffTm.tm_mday \in {2, 3}
  /\ last.t_test = last.t_cutoff + 1
  /\ last.ret = 1

(* ------------------------------- C3 ------------------------------------ *)

\* C3: node_conddate_render returns 1 when the timestamp reported by the
\* get_number callback is strictly greater than the cutoff and 0 otherwise,
\* the cutoff being cutoff_this(period) for count 0 and
\* cutoff_number(period, count) for count > 0; equal values give 0.
C3_StrictComparison ==
  (last.op = "render" /\ ~aborted) =>
    /\ last.ret \in {0, 1}
    /\ last.calls = 1
    /\ node[1].ndata.count = 0 =>
         (last.ret = 1 <=> last.t_test > cutoff_this(node[1].ndata.period))
    /\ node[1].ndata.count > 0 =>
         (last.ret = 1 <=>
            last.t_test > cutoff_number(node[1].ndata.period, node[1].ndata.count))

\* A timestamp equal to the cutoff of a node with count > 0 rendered false,
\* where cutoff_this of the same period is a different instant
C3_Witness ==
  /\ last.op = "render" /\ ~aborted
  /\ node[1].ndata.count > 0
  /\ last.t_test = cutoff_number(node[1].ndata.period, node[1].ndata.count)
  /\ cutoff_this(node[1].ndata.period) # last.t_test
  /\ last.ret = 0

(* --------------------------- parser claims ----------------------------- *)

\* The last call was node_conddate_parse
Parsed == last.op = "parse"

\* Number of digits at the start of the string given to the last parse call
CountLen ==
  Cardinality({ k \in 1..(Len(args.buf) - args.s) :
                  \A j \in 1..k : args.buf[args.s + j] \in Digits })

\* The digits of the count, the offset of the byte after them, and that byte
CountDigits == SubSeq(args.buf, args.s + 1, args.s + CountLen)
CountEnd == args.s + CountLen
AfterCount == IF CountEnd < Len(args.buf) THEN args.buf[CountEnd + 1] ELSE NUL

RECURSIVE Decimal(_)
\* The number a sequence of decimal digits denotes
Decimal(ds) ==
  IF ds = <<>> THEN 0
  ELSE Decimal(SubSeq(ds, 1, Len(ds) - 1)) * 10 + DigitVal(ds[Len(ds)])

(* ------------------------------- C4 ------------------------------------ *)

\* C4: whenever the byte after the optional count is not one of y, m, w, d,
\* H, M (any byte, the terminating NUL included), node_conddate_parse returns
\* no node and the error position is the address of that byte.
C4_BadPeriodRejected ==
  (Parsed /\ Decimal(CountDigits) < USHRT_MAX /\ AfterCount \notin PeriodChars) =>
    /\ node = NULL
    /\ error.position = CountEnd

(* ------------------------------- C5 ------------------------------------ *)

\* C5: a leading decimal count is accepted only when it is below USHRT_MAX:
\* counts 0..65534 are stored unchanged in the node; 65535 and every larger
\* count give the "Invalid number" error positioned at the first digit; every
\* node produced has 0 <= count <= 65534.
C5_CountRange ==
  Parsed =>
    /\ (CountLen > 0 /\ Decimal(CountDigits) >= USHRT_MAX) =>
         /\ node = NULL
         /\ error.position = args.s
         /\ error.message = <<InvalidNumber, StrFrom(args.buf, args.s)>>
    /\ (CountLen > 0 /\ Decimal(CountDigits) < USHRT_MAX) =>
         /\ error.message[1] # InvalidNumber
         /\ node # NULL => node[1].ndata.count = Decimal(CountDigits)
    /\ node # NULL =>
         (0 <= node[1].ndata.count /\ node[1].ndata.count <= USHRT_MAX - 1)

\* The largest count, 65534, was parsed and is in the node
C5_Witness ==
  /\ Parsed
  /\ Decimal(CountDigits) = USHRT_MAX - 1
  /\ node # NULL
  /\ node[1].ndata.count = USHRT_MAX - 1

(* ------------------------------- C6 ------------------------------------ *)

\* C6: a successful parse returns a node of type ENT_CONDDATE that carries
\* the parsed count (0 when there are no digits), the period character and
\* the did and uid passed in, and sets *parsed_until to one byte past the
\* period character.
C6_NodeContents ==
  (Parsed /\ node # NULL) =>
    /\ node[1].type = ENT_CONDDATE
    /\ node[1].ndata.count = (IF CountLen = 0 THEN 0 ELSE Decimal(CountDigits))
    /\ node[1].ndata.period = AfterCount
    /\ node[1].did = args.did
    /\ node[1].uid = args.uid
    /\ parsed_until = CountEnd + 1
    /\ last.allocs = 2

\* A period with no digits before it, not at the start of the format string,
\* was parsed into a node with count 0
C6_Witness ==
  /\ Parsed /\ node # NULL
  /\ args.s > 0
  /\ CountLen = 0
  /\ AfterCount \in PeriodChars
  /\ node[1].ndata.count = 0
  /\ parsed_until = args.s + 1

(* ------------------------------- C7 ------------------------------------ *)

\* C7: a call of node_conddate_parse that fails (invalid number or invalid
\* period) returns NULL, allocates nothing, writes the error position and
\* message once and leaves *parsed_until as it was before the call.
C7_FailureEffects ==
  [][ (Parsed' /\ node' = NULL) =>
        /\ parsed_until' = parsed_until
        /\ last'.allocs = 0
        /\ last'.err_writes = 1
        /\ error'.position \in {args'.s, CountEnd'}
        /\ error'.message[1] \in {InvalidNumber, InvalidPeriod} ]_vars

\* A parse failed after an earlier one had succeeded: *parsed_until still
\* holds what the earlier call stored, beyond the failing call's error
C7_Witness ==
  /\ Parsed /\ node = NULL
  /\ last.allocs = 0 /\ last.err_writes = 1
  /\ error.message[1] = InvalidPeriod
  /\ parsed_until > error.position + 1

(* --------------------------- cutoff claims ----------------------------- *)

\* Seconds since the start of the local hour, and of the local minute
SecOfHour(t) == (t + gmtoff) % SecsPerHour
SecOfMin(t) == (t + gmtoff) % SecsPerMin

\* Local midnight of January 1st of the current year
StartOfYear ==
  DaysFromCivil(NowTm.tm_year + TmYearBase, 1, 1) * SecsPerDay - gmtoff

(* ------------------------------- C8 ------------------------------------ *)

\* C8: for the periods y, m, d, H, M, cutoff_this is the start of the current
\* year, month, day, hour or minute in local time, and
\* cutoff_this(y) <= cutoff_this(m) <= cutoff_this(d) <= cutoff_this(H)
\*   <= cutoff_this(M) <= now.
C8_StartOfPeriod ==
  \A p \in {"y", "m", "d", "H", "M"} :
    Rendered(0, p) =>
      /\ last.t_cutoff =
           CASE p = "M" -> now - SecOfMin(now)
             [] p = "H" -> now - SecOfHour(now)
             [] p = "d" -> StartOfDay
             [] p = "m" -> StartOfDay - (NowTm.tm_mday - 1) * SecsPerDay
             [] p = "y" -> StartOfYear
      /\ cutoff_this("y") <= cutoff_this("m")
      /\ cutoff_this("m") <= cutoff_this("d")
      /\ cutoff_this("d") <= cutoff_this("H")
      /\ cutoff_this("H") <= cutoff_this("M")
      /\ cutoff_this("M") <= now

\* The start of the year was the cutoff of a render at a time when the five
\* starts and now are six different instants
C8_Witness ==
  /\ Rendered(0, "y")
  /\ last.t_cutoff = StartOfYear
  /\ cutoff_this("y") < cutoff_this("m")
  /\ cutoff_this("m") < cutoff_this("d")
  /\ cutoff_this("d") < cutoff_this("H")
  /\ cutoff_this("H") < cutoff_this("M")
  /\ cutoff_this("M") < now

(* ------------------------------- C9 ------------------------------------ *)

\* C9: for period 'w' cutoff_this changes only the day of the month, to 1:
\* the cutoff is the 1st of the current month at the current hour, minute and
\* second, the node with count 0 renders true iff the timestamp is strictly
\* later, and the cutoff differs from cutoff_this('m') whenever now is not
\* exactly midnight.
C9_WeekIsFirstOfMonth ==
  Rendered(0, "w") =>
    /\ last.t_cutoff = now - (NowTm.tm_mday - 1) * SecsPerDay
    /\ CutoffTm = [NowTm EXCEPT !.tm_mday = 1]
    /\ last.ret = Bool(last.t_test > now - (NowTm.tm_mday - 1) * SecsPerDay)
    /\ SecOfDay(now) # 0 => last.t_cutoff # cutoff_this("m")

\* Period 'w' with count 0 was rendered later than the 7th of a month and not
\* at midnight: the cutoff lies more than a week back, and a timestamp one
\* second after it rendered true
C9_Witness ==
  /\ Rendered(0, "w")
  /\ NowTm.tm_mday > DaysPerWeek
  /\ SecOfDay(now) # 0
  /\ last.t_cutoff < now - DaysPerWeek * SecsPerDay
  /\ last.t_test = last.t_cutoff + 1
  /\ last.ret = 1

(* ------------------------------- C10 ----------------------------------- *)

\* C10: cutoff_number subtracts count from one field of the local time of
\* now: minutes, hours, days and weeks (7 days) move the cutoff back by that
\* much time; months and years keep the time of day and move it back by
\* count calendar months or years; for every count > 0 the cutoff is
\* strictly earlier than now.
C10_OneFieldSubtracted ==
  \A p \in PeriodChars : \A n \in 1..MaxCount :
    Rendered(n, p) =>
      /\ last.t_cutoff < now
      /\ SecOfMin(last.t_cutoff) = SecOfMin(now)
      /\ p \in {"y", "m", "w", "d"} => SecOfDay(last.t_cutoff) = SecOfDay(now)
      /\ p = "M" => last.t_cutoff = now - n * SecsPerMin
      /\ p = "H" => last.t_cutoff = now - n * SecsPerHour
      /\ p = "d" => last.t_cutoff = now - n * SecsPerDay
      /\ p = "w" => last.t_cutoff = now - n * DaysPerWeek * SecsPerDay
      /\ p = "m" => /\ now - last.t_cutoff >= n * 28 * SecsPerDay
                    /\ now - last.t_cutoff <= n * 31 * SecsPerDay
      /\ p = "y" => /\ now - last.t_cutoff >= n * 365 * SecsPerDay
                    /\ now - last.t_cutoff <= n * 366 * SecsPerDay

\* Two weeks were subtracted: the cutoff is 14 days before now
C10_Witness ==
  /\ Rendered(2, "w")
  /\ last.t_cutoff = now - 2 * DaysPerWeek * SecsPerDay

(* ====================== the render call, in full ======================= *)
(* node_conddate_render with all six arguments, called by a renderer that  *)
(* visits the node any number of times while the clock advances.           *)

\* Types of the nodes that are not conditional dates
OtherNodeTypes == {"ENT_EXPANDO", "ENT_TEXT"}

\* Dates of the messages a data context can point to
MessageDates ==
  { mktime(Tm(2024, 2, 29, 12, 0, 0), 0), mktime(Tm(2023, 1, 1, 0, 0, 0), 0) }

\* Data contexts: the object the opaque data pointer refers to
Datas == { [date |-> d] : d \in MessageDates }

\* Values of the MuttFormatFlags argument
FormatFlags == {0, 1}

\* Output buffers on entry, each with the column budget of the call
RenderOutputs ==
  { [buf |-> <<>>, max_cols |-> 80], [buf |-> <<"x", " ">>, max_cols |-> 0] }

\* Format strings of the nodes that are rendered repeatedly
RenderCallInputs == { [buf |-> <<"d">>, s |-> 0], [buf |-> <<"1", "m">>, s |-> 0] }

\* The number callback of a dispatch entry: the date of the message
get_number(n, data, flags) == data.date

\* The table has an entry before the sentinel that matches (did, uid) and
\* provides a number
HasNumberEntry(rd, did, uid) ==
  \E i \in 1..Len(rd) :
    /\ \A j \in 1..i : rd[j].did # -1
    /\ rd[i].did = did /\ rd[i].uid = uid /\ rd[i].get_number

render_callbacks_flags_cleared(n, data, flags) ==
  << [node |-> n, data |-> data, flags |-> 0] >>

\* The callback invocations of one render call that passes its assertions
render_callbacks(n, data, flags) ==
  << [node |-> n, data |-> data, flags |-> flags] >>

render_call_date_from_flags(n, rd, buf, max_cols, data, flags) ==
  LET r == node_conddate_render(n, rd, IF flags = 0 THEN data.date ELSE 0)
  IN  [made |-> TRUE, node |-> <<n>>, buf_in |-> buf, buf_out |-> buf,
       max_cols |-> max_cols, cols_used |-> 0, data |-> data, flags |-> flags,
       clock |-> mutt_date_now,
       asserted |-> r.asserted, returned |-> ~r.asserted,
       callbacks |-> IF r.calls = 0 THEN <<>> ELSE render_callbacks(n, data, flags),
       node_out |-> <<n>>, ret |-> r.ret]

\* One call of node->render(): what it was given, what it left behind
render_call(n, rd, buf, max_cols, data, flags) ==
  LET r == node_conddate_render(n, rd, get_number(n, data, flags))
  IN  [made |-> TRUE, node |-> <<n>>, buf_in |-> buf, buf_out |-> buf,
       max_cols |-> max_cols, cols_used |-> 0, data |-> data, flags |-> flags,
       clock |-> mutt_date_now,
       asserted |-> r.asserted, returned |-> ~r.asserted,
       callbacks |-> IF r.calls = 0 THEN <<>> ELSE render_callbacks(n, data, flags),
       node_out |-> <<n>>, ret |-> r.ret]

\* A format string is parsed into the node that will be rendered
ParseNode ==
  /\ ParseCall(RenderCallInputs)
  /\ call' = NoRender
  /\ prev' = NoEarlier
  /\ UNCHANGED <<exp, qs, dialogs>>

\* The renderer is handed a node of another type
ForeignNode ==
  /\ ~aborted
  /\ \E t \in OtherNodeTypes :
       node' = << [type |-> t, did |-> 1, uid |-> 2,
                   ndata |-> node_conddate_private_new(0, NUL)] >>
  /\ last' = NoCall
  /\ call' = NoRender
  /\ prev' = NoEarlier
  /\ UNCHANGED <<now, gmtoff, rdata, args, parsed_until, error, aborted, exp, qs, dialogs>>

\* The renderer calls node->render() on the node
RenderFull ==
  /\ ~aborted
  /\ node # NULL
  /\ \E o \in RenderOutputs, d \in Datas, f \in FormatFlags :
       LET c == render_call(node[1], rdata, o.buf, o.max_cols, d, f)
       IN  /\ call' = c
           /\ aborted' = c.asserted
           /\ last' = [NoCall EXCEPT !.op = "render", !.ret = c.ret,
                                     !.calls = Len(c.callbacks)]
  /\ prev' = IF call.made /\ call.returned
             THEN [made |-> TRUE, data |-> call.data, flags |-> call.flags,
                   clock |-> call.clock, ret |-> call.ret]
             ELSE prev
  /\ UNCHANGED <<now, gmtoff, rdata, args, node, parsed_until, error, exp, qs, dialogs>>

NextRender == ParseNode \/ ForeignNode \/ RenderFull \/ Tick

SpecRender == Init /\ [][NextRender]_vars

\* C11: a render call on a node whose (did, uid) has no number-providing
\* entry in the dispatch table, or whose type is not ENT_CONDDATE, stops at
\* the assertion: no callback is invoked, nothing is returned, and the
\* program does not continue
C11_FailFast ==
  (call.made /\ (call.node[1].type # ENT_CONDDATE
                 \/ ~HasNumberEntry(rdata, call.node[1].did, call.node[1].uid)))
    => (call.asserted /\ aborted /\ call.callbacks = <<>> /\ ~call.returned)

C11_Witness ==
  /\ call.made
  /\ call.node[1].type = ENT_CONDDATE
  /\ ~HasNumberEntry(rdata, call.node[1].did, call.node[1].uid)
  /\ aborted

\* Two returned render calls on the same node with the same dispatch table
\* and the same data context
SameInputs == prev.made /\ call.made /\ call.returned /\ prev.data = call.data

C13_OnlyABoolean ==
  (call.made /\ call.returned) =>
    /\ call.buf_out = call.buf_in
    /\ call.cols_used = 0
    /\ call.node_out = call.node
    /\ call.ret \in {0, 1}
    /\ call.callbacks =
         << [node |-> call.node[1], data |-> call.data, flags |-> call.flags] >>

C13_Witness ==
  /\ call.made /\ call.returned
  /\ call.buf_in # <<>> /\ call.flags # 0 /\ call.ret = 1

(* ===================== the format-string parser ======================== *)
(* expando_parse as the tests of test/expando call it: a format string and *)
(* a definition table give a tree of nodes, or an error message.  A node   *)
(* pointer is NULL or <<node>>; the children of a node are such pointers.  *)

INT_MAX == 2147483647

JUSTIFY_LEFT == "JUSTIFY_LEFT"
JUSTIFY_RIGHT == "JUSTIFY_RIGHT"
JUSTIFY_CENTER == "JUSTIFY_CENTER"

ENT_TEXT == "ENT_TEXT"
ENT_EXPANDO == "ENT_EXPANDO"
ENT_CONDITION == "ENT_CONDITION"
ENT_CONDBOOL == "ENT_CONDBOOL"
ENT_CONTAINER == "ENT_CONTAINER"

\* Indexes of the children of a condition node
ENC_CONDITION == 0
ENC_TRUE == 1
ENC_FALSE == 2

\* The bytes of a C string literal
Chars(s) == [i \in 1..Len(s) |-> SubSeq(s, i, i)]

\* An empty error buffer
NoError == ""

\* struct ExpandoFormat
ExpandoFormat(min_cols, max_cols, justification, leader) ==
  [min_cols |-> min_cols, max_cols |-> max_cols,
   justification |-> justification, leader |-> leader]

\* struct ExpandoNode
ExpandoNode(type, text, did, uid, format, children) ==
  [type |-> type, text |-> text, did |-> did, uid |-> uid,
   format |-> format, children |-> children]

node_text_new(text) == ExpandoNode(ENT_TEXT, text, 0, 0, NULL, <<>>)

node_expando_new(def, format) ==
  ExpandoNode(ENT_EXPANDO, def.short_name, def.did, def.uid, format, <<>>)

node_condbool_new(def) ==
  ExpandoNode(ENT_CONDBOOL, def.short_name, def.did, def.uid, NULL, <<>>)

node_condition_new(node_cond, node_true, node_false) ==
  ExpandoNode(ENT_CONDITION, <<>>, 0, 0, NULL, <<node_cond, node_true, node_false>>)

node_container_new(children) ==
  ExpandoNode(ENT_CONTAINER, <<>>, 0, 0, NULL, children)

\* node_get_child: the child at a 0-based index, NULL when there is none
node_get_child(ptr, index) ==
  IF ptr = NULL \/ index >= Len(ptr[1].children) THEN NULL
  ELSE ptr[1].children[index + 1]

\* A container without children becomes NULL, a container with one child
\* becomes that child
node_container_collapse(ptr) ==
  IF ptr = NULL \/ ptr[1].type # ENT_CONTAINER THEN ptr
  ELSE IF Len(ptr[1].children) = 0 THEN NULL
  ELSE IF Len(ptr[1].children) = 1 THEN ptr[1].children[1]
  ELSE ptr

\* One line of a definition table
ExpandoDefinition(short_name, did, uid) ==
  [short_name |-> Chars(short_name), did |-> did, uid |-> uid]

\* The entry of the table whose short name is the byte c, NULL when none
find_definition(defs, c) ==
  IF \E k \in 1..Len(defs) : defs[k].short_name = <<c>>
  THEN << defs[CHOOSE k \in 1..Len(defs) :
                 /\ defs[k].short_name = <<c>>
                 /\ \A j \in 1..(k - 1) : defs[j].short_name # <<c>>] >>
  ELSE NULL

\* What a parsing function gives back: a node pointer, the offset parsed up
\* to, and the error message
ParseResult(ptr, end, err) == [node |-> ptr, end |-> end, err |-> err]

\* parse_format: [-|=][0][min_cols][.max_cols] at offset i; NULL when the
\* prefix is empty
parse_format_end(i, start, fmt) ==
  [fmt |-> IF i = start THEN NULL ELSE <<fmt>>, end |-> i, err |-> NoError]

parse_format_fail(i) == [fmt |-> NULL, end |-> i, err |-> InvalidNumber]

parse_format_max(buf, i, start, just, leader, min_cols) ==
  IF CharAt(buf, i) # "."
  THEN parse_format_end(i, start, ExpandoFormat(min_cols, INT_MAX, just, leader))
  ELSE IF ~isdigit(CharAt(buf, i + 1))
  THEN parse_format_end(i + 1, start, ExpandoFormat(min_cols, 0, just, leader))
  ELSE IF conddate_bad_number(mutt_str_atous(buf, i + 1))
  THEN parse_format_fail(i + 1)
  ELSE parse_format_end(mutt_str_atous(buf, i + 1).end_ptr, start,
         ExpandoFormat(min_cols, mutt_str_atous(buf, i + 1).number, just, leader))

parse_format_min(buf, i, start, just, leader) ==
  IF ~isdigit(CharAt(buf, i))
  THEN parse_format_max(buf, i, start, just, leader, 0)
  ELSE IF conddate_bad_number(mutt_str_atous(buf, i))
  THEN parse_format_fail(i)
  ELSE parse_format_max(buf, mutt_str_atous(buf, i).end_ptr, start, just, leader,
                        mutt_str_atous(buf, i).number)

parse_format_leader(buf, i, start, just) ==
  IF CharAt(buf, i) = "0"
  THEN parse_format_min(buf, i + 1, start, just, "0")
  ELSE parse_format_min(buf, i, start, just, " ")

parse_format(buf, i) ==
  IF CharAt(buf, i) = "-" THEN parse_format_leader(buf, i + 1, i, JUSTIFY_LEFT)
  ELSE IF CharAt(buf, i) = "=" THEN parse_format_leader(buf, i + 1, i, JUSTIFY_CENTER)
  ELSE parse_format_leader(buf, i, i, JUSTIFY_RIGHT)

UnknownExpando == "Unknown expando"
MissingQuestion == "Conditional expando is missing '?'"
MissingGreater == "Conditional expando is missing '>'"

\* %[format]token at offset i
node_expando_named(buf, defs, f) ==
  IF f.err # NoError THEN ParseResult(NULL, f.end, f.err)
  ELSE IF find_definition(defs, CharAt(buf, f.end)) = NULL
  THEN ParseResult(NULL, f.end, UnknownExpando)
  ELSE ParseResult(<< node_expando_new(find_definition(defs, CharAt(buf, f.end))[1], f.fmt) >>,
               f.end + 1, NoError)

node_expando_parse(buf, i, defs) == node_expando_named(buf, defs, parse_format(buf, i + 1))

RECURSIVE node_text_parse(_, _, _, _)
\* Literal text from offset i up to a '%' that starts a token, a terminator
\* of the enclosing conditional, or the end; "%%" is a literal '%'
node_text_parse(buf, i, term_chars, text) ==
  IF CharAt(buf, i) = NUL \/ CharAt(buf, i) \in term_chars
  THEN ParseResult(<< node_text_new(text) >>, i, NoError)
  ELSE IF CharAt(buf, i) = "%"
  THEN IF CharAt(buf, i + 1) = "%"
       THEN node_text_parse(buf, i + 2, term_chars, Append(text, "%"))
       ELSE ParseResult(<< node_text_new(text) >>, i, NoError)
  ELSE node_text_parse(buf, i + 1, term_chars, Append(text, CharAt(buf, i)))

RECURSIVE node_parse_many(_, _, _, _, _)
RECURSIVE node_parse_one(_, _, _, _)
RECURSIVE node_condition_parse(_, _, _)

\* The end of a conditional: the '>' that closes it
node_condition_close(buf, i, node_cond, node_true, node_false) ==
  IF CharAt(buf, i) # ">" THEN ParseResult(NULL, i, MissingGreater)
  ELSE ParseResult(<< node_condition_new(node_cond, node_container_collapse(node_true),
                                     node_container_collapse(node_false)) >>,
               i + 1, NoError)

\* The false branch, parsed up to '>', once it is known to be there
node_condition_false(buf, node_cond, node_true, f) ==
  IF f.err # NoError THEN ParseResult(NULL, f.end, f.err)
  ELSE node_condition_close(buf, f.end, node_cond, node_true, f.node)

\* After the true branch, parsed up to '&' or '>': the optional false branch
node_condition_true(buf, defs, node_cond, t) ==
  IF t.err # NoError THEN ParseResult(NULL, t.end, t.err)
  ELSE IF CharAt(buf, t.end) = "&"
  THEN node_condition_false(buf, node_cond, t.node,
         node_parse_many(buf, t.end + 1, {">"}, defs, <<>>))
  ELSE node_condition_close(buf, t.end, node_cond, t.node, NULL)

\* %<token?true&false> at offset i
node_condition_parse(buf, i, defs) ==
  IF find_definition(defs, CharAt(buf, i + 2)) = NULL
  THEN ParseResult(NULL, i + 2, UnknownExpando)
  ELSE IF CharAt(buf, i + 3) # "?" THEN ParseResult(NULL, i + 3, MissingQuestion)
  ELSE node_condition_true(buf, defs,
         << node_condbool_new(find_definition(defs, CharAt(buf, i + 2))[1]) >>,
         node_parse_many(buf, i + 4, {"&", ">"}, defs, <<>>))

\* One node at offset i: a conditional, a field or a run of text
node_parse_one(buf, i, term_chars, defs) ==
  IF CharAt(buf, i) = "%" /\ CharAt(buf, i + 1) = "<"
  THEN node_condition_parse(buf, i, defs)
  ELSE IF CharAt(buf, i) = "%" /\ CharAt(buf, i + 1) # "%"
  THEN node_expando_parse(buf, i, defs)
  ELSE node_text_parse(buf, i, term_chars, <<>>)

\* After one node of a sequence: stop at an error, else go on
node_parse_next(buf, term_chars, defs, children, r) ==
  IF r.err # NoError THEN ParseResult(NULL, r.end, r.err)
  ELSE node_parse_many(buf, r.end, term_chars, defs, Append(children, r.node))

\* Nodes from offset i up to a terminator or the end, in a container
node_parse_many(buf, i, term_chars, defs, children) ==
  IF CharAt(buf, i) = NUL \/ CharAt(buf, i) \in term_chars
  THEN ParseResult(<< node_container_new(children) >>, i, NoError)
  ELSE node_parse_next(buf, term_chars, defs, children,
                       node_parse_one(buf, i, term_chars, defs))

\* expando_parse: the tree of a whole format string, or NULL and a message
expando_root(r) ==
  IF r.err # NoError THEN [node |-> NULL, err |-> r.err, ok |-> FALSE]
  ELSE [node |-> node_container_collapse(r.node), err |-> NoError, ok |-> TRUE]

expando_parse(str, defs) == expando_root(node_parse_many(str, 0, {}, defs, <<>>))

(* ------------------------ test/expando: checks -------------------------- *)

\* check_node_test: the node is a text node with this text
check_node_test(ptr, text) ==
  /\ ptr # NULL
  /\ ptr[1].type = ENT_TEXT
  /\ ptr[1].text = Chars(text)

\* check_node_expando: the node is a field with this name, and its format
\* is NULL when NULL is expected, and else equal to the one expected
check_node_expando(ptr, name, fmt_expected) ==
  /\ ptr # NULL
  /\ ptr[1].type = ENT_EXPANDO
  /\ ptr[1].text = Chars(name)
  /\ IF fmt_expected = NULL THEN ptr[1].format = NULL
     ELSE /\ ptr[1].format # NULL
          /\ ptr[1].format[1].justification = fmt_expected[1].justification
          /\ ptr[1].format[1].leader = fmt_expected[1].leader
          /\ ptr[1].format[1].min_cols = fmt_expected[1].min_cols
          /\ ptr[1].format[1].max_cols = fmt_expected[1].max_cols

\* check_node_condbool: the node is a boolean condition on this name
check_node_condbool(ptr, name) ==
  /\ ptr # NULL
  /\ ptr[1].type = ENT_CONDBOOL
  /\ ptr[1].text = Chars(name)

\* check_node_cond: the node is a condition
check_node_cond(ptr) == ptr # NULL /\ ptr[1].type = ENT_CONDITION

buf_is_empty(err) == err = NoError

\* What a test leaves behind: the string parsed, the Expando (ok: it is not
\* NULL; node: its tree), the error buffer, and whether every check passed
TestRun(test, block, str, parts, e, passed) ==
  [made |-> TRUE, test |-> test, block |-> block, string |-> str, parts |-> parts,
   node |-> e.node, err |-> e.err, ok |-> e.ok, passed |-> passed]

(* ----------------- test/expando/formatted_expando.c -------------------- *)

formatted_expando_defs == << ExpandoDefinition("X", 1, 1) >>

formatted_expando_input == Chars("%X %8X %-8X %08X %.8X %8.8X %-8.8X %=8X")

\* Mutant: the first field is expected to carry the default format
formatted_expando_fmts_all_set ==
  << << ExpandoFormat(0, INT_MAX, JUSTIFY_RIGHT, " ") >>,
     << ExpandoFormat(8, INT_MAX, JUSTIFY_RIGHT, " ") >>,
     << ExpandoFormat(8, INT_MAX, JUSTIFY_LEFT, " ") >>,
     << ExpandoFormat(8, INT_MAX, JUSTIFY_RIGHT, "0") >>,
     << ExpandoFormat(0, 8, JUSTIFY_RIGHT, " ") >>,
     << ExpandoFormat(8, 8, JUSTIFY_RIGHT, " ") >>,
     << ExpandoFormat(8, 8, JUSTIFY_LEFT, " ") >>,
     << ExpandoFormat(8, INT_MAX, JUSTIFY_CENTER, " ") >> >>

\* The format the test expects of each field, in order: the third argument
\* of its check_node_expando calls
formatted_expando_fmts ==
  << NULL,
     << ExpandoFormat(8, INT_MAX, JUSTIFY_RIGHT, " ") >>,
     << ExpandoFormat(8, INT_MAX, JUSTIFY_LEFT, " ") >>,
     << ExpandoFormat(8, INT_MAX, JUSTIFY_RIGHT, "0") >>,
     << ExpandoFormat(0, 8, JUSTIFY_RIGHT, " ") >>,
     << ExpandoFormat(8, 8, JUSTIFY_RIGHT, " ") >>,
     << ExpandoFormat(8, 8, JUSTIFY_LEFT, " ") >>,
     << ExpandoFormat(8, INT_MAX, JUSTIFY_CENTER, " ") >> >>

\* The checks of the test: fields at the even children, " " at the odd ones
formatted_expando_checks(e) ==
  /\ e.ok
  /\ buf_is_empty(e.err)
  /\ \A k \in 0..7 :
       check_node_expando(node_get_child(e.node, 2 * k), "X", formatted_expando_fmts[k + 1])
  /\ \A k \in 0..6 : check_node_test(node_get_child(e.node, 2 * k + 1), " ")

test_expando_formatted_expando ==
  /\ exp' = TestRun("formatted_expando", 0, formatted_expando_input, NULL,
                    expando_parse(formatted_expando_input, formatted_expando_defs),
                    formatted_expando_checks(
                      expando_parse(formatted_expando_input, formatted_expando_defs)))
  /\ UNCHANGED <<now, gmtoff, rdata, args, node, parsed_until, error, last, aborted,
                 call, prev, qs, dialogs>>

(* ------------------ format prefixes, one field each -------------------- *)

\* The parts of a format prefix: justification, leading zero, digits of the
\* minimum, and '.' with the digits of the maximum
FormatParts ==
  [just : {"", "-", "="}, zero : {"", "0"}, min : {"", "8", "12"},
   max : {"", ".8", ".3", ".10"}]

FormatString(p) == Chars("%" \o p.just \o p.zero \o p.min \o p.max \o "X")

\* A caller parses "%<prefix>X"
ParseFormat ==
  /\ \E p \in FormatParts :
       exp' = TestRun("format", 0, FormatString(p), p,
                      expando_parse(FormatString(p), formatted_expando_defs), TRUE)
  /\ UNCHANGED <<now, gmtoff, rdata, args, node, parsed_until, error, last, aborted,
                 call, prev, qs, dialogs>>

(* ------------------- test/expando/nested_if_else.c --------------------- *)

nested_if_else_defs ==
  << ExpandoDefinition("a", 1, 1), ExpandoDefinition("b", 1, 2),
     ExpandoDefinition("c", 1, 3), ExpandoDefinition("d", 1, 4),
     ExpandoDefinition("e", 1, 5), ExpandoDefinition("f", 1, 6),
     ExpandoDefinition("g", 1, 7) >>

\* The input of each block of the test, in the order of the file
nested_if_else_inputs ==
  << Chars("%<a?%<b?%c&%d>&%<e?%f&%g>>"),
     Chars("%<a?%<b?%c&%d>&%<e?%f>>"),
     Chars("%<a?%<b?%c&%d>&%<e?&%f>>"),
     Chars("%<a?%<b?%c>&%<e?%f&%g>>"),
     Chars("%<a?%<b?&%c>&%<e?%f&%g>>") >>

\* Mutant: the first block expects the branches of b the other way round
nested_if_else_expected_swapped ==
  << [t |-> <<"b", "d", "c">>, f |-> <<"e", "f", "g">>],
     [t |-> <<"b", "c", "d">>, f |-> <<"e", "f", "">>],
     [t |-> <<"b", "c", "d">>, f |-> <<"e", "", "f">>],
     [t |-> <<"b", "c", "">>, f |-> <<"e", "f", "g">>],
     [t |-> <<"b", "", "c">>, f |-> <<"e", "f", "g">>] >>

\* Mutant: an empty true branch is expected to shift the false branch into
\* its place
nested_if_else_expected_shifted ==
  << [t |-> <<"b", "c", "d">>, f |-> <<"e", "f", "g">>],
     [t |-> <<"b", "c", "d">>, f |-> <<"e", "f", "">>],
     [t |-> <<"b", "c", "d">>, f |-> <<"e", "f", "">>],
     [t |-> <<"b", "c", "">>, f |-> <<"e", "f", "g">>],
     [t |-> <<"b", "c", "">>, f |-> <<"e", "f", "g">>] >>

\* Mutant: a missing false clause is expected to take the '&' that follows
nested_if_else_expected_greedy ==
  << [t |-> <<"b", "c", "d">>, f |-> <<"e", "f", "g">>],
     [t |-> <<"b", "c", "d">>, f |-> <<"e", "f", "f">>],
     [t |-> <<"b", "c", "d">>, f |-> <<"e", "", "f">>],
     [t |-> <<"b", "c", "e">>, f |-> <<"e", "f", "g">>],
     [t |-> <<"b", "", "c">>, f |-> <<"e", "f", "g">>] >>

\* What each block expects of the two inner conditionals: the name of the
\* condition, of the true branch and of the false branch, "" where the
\* block checks that the branch is NULL
nested_if_else_expected ==
  << [t |-> <<"b", "c", "d">>, f |-> <<"e", "f", "g">>],
     [t |-> <<"b", "c", "d">>, f |-> <<"e", "f", "">>],
     [t |-> <<"b", "c", "d">>, f |-> <<"e", "", "f">>],
     [t |-> <<"b", "c", "">>, f |-> <<"e", "f", "g">>],
     [t |-> <<"b", "", "c">>, f |-> <<"e", "f", "g">>] >>

\* The check of one branch of an inner conditional
nested_if_else_branch(ptr, name) ==
  IF name = "" THEN ptr = NULL ELSE check_node_expando(ptr, name, NULL)

\* The checks of one inner conditional
nested_if_else_inner(ptr, x) ==
  /\ check_node_cond(ptr)
  /\ check_node_condbool(node_get_child(ptr, ENC_CONDITION), x[1])
  /\ nested_if_else_branch(node_get_child(ptr, ENC_TRUE), x[2])
  /\ nested_if_else_branch(node_get_child(ptr, ENC_FALSE), x[3])

\* The checks of block b
nested_if_else_checks(b, e) ==
  /\ e.ok
  /\ buf_is_empty(e.err)
  /\ check_node_condbool(node_get_child(e.node, ENC_CONDITION), "a")
  /\ nested_if_else_inner(node_get_child(e.node, ENC_TRUE), nested_if_else_expected[b].t)
  /\ nested_if_else_inner(node_get_child(e.node, ENC_FALSE), nested_if_else_expected[b].f)

test_expando_nested_if_else ==
  /\ \E b \in 1..Len(nested_if_else_inputs) :
       exp' = TestRun("nested_if_else", b, nested_if_else_inputs[b], NULL,
                      expando_parse(nested_if_else_inputs[b], nested_if_else_defs),
                      nested_if_else_checks(b,
                        expando_parse(nested_if_else_inputs[b], nested_if_else_defs)))
  /\ UNCHANGED <<now, gmtoff, rdata, args, node, parsed_until, error, last, aborted,
                 call, prev, qs, dialogs>>

(* --------------------- test/expando/new_if_else.c ---------------------- *)

new_if_else_defs == << ExpandoDefinition("l", 1, 1), ExpandoDefinition("c", 1, 2) >>

new_if_else_input == Chars("if: %<l?%4l>  if-else: %<l?%4l&%4c>")

\* Mutant: the fields in the branches are expected without a minimum width
new_if_else_fmt_unpadded == << ExpandoFormat(0, INT_MAX, JUSTIFY_RIGHT, " ") >>

\* The format the test expects of the fields in the branches
new_if_else_fmt == << ExpandoFormat(4, INT_MAX, JUSTIFY_RIGHT, " ") >>

new_if_else_checks(e) ==
  /\ e.ok
  /\ buf_is_empty(e.err)
  /\ check_node_test(node_get_child(e.node, 0), "if: ")
  /\ check_node_cond(node_get_child(e.node, 1))
  /\ check_node_condbool(node_get_child(node_get_child(e.node, 1), ENC_CONDITION), "l")
  /\ check_node_expando(node_get_child(node_get_child(e.node, 1), ENC_TRUE), "l",
                        new_if_else_fmt)
  /\ node_get_child(node_get_child(e.node, 1), ENC_FALSE) = NULL
  /\ check_node_test(node_get_child(e.node, 2), "  if-else: ")
  /\ check_node_cond(node_get_child(e.node, 3))
  /\ check_node_condbool(node_get_child(node_get_child(e.node, 3), ENC_CONDITION), "l")
  /\ check_node_expando(node_get_child(node_get_child(e.node, 3), ENC_TRUE), "l",
                        new_if_else_fmt)
  /\ check_node_expando(node_get_child(node_get_child(e.node, 3), ENC_FALSE), "c",
                        new_if_else_fmt)

test_expando_new_if_else ==
  /\ exp' = TestRun("new_if_else", 0, new_if_else_input, NULL,
                    expando_parse(new_if_else_input, new_if_else_defs),
                    new_if_else_checks(expando_parse(new_if_else_input, new_if_else_defs)))
  /\ UNCHANGED <<now, gmtoff, rdata, args, node, parsed_until, error, last, aborted,
                 call, prev, qs, dialogs>>

(* ------------------- conditionals, built from parts -------------------- *)

\* Texts of a branch: empty, a field, text, and conditionals of each form
BranchTexts ==
  { "", "%c", "x", "%4c", "%<b?%c&%d>", "%<b?%c>", "%<b?&%d>",
    "%<b?%<e?%f&%g>&%d>" }

\* A conditional on a: its true branch, whether it has a '&', and the false
\* branch that follows the '&'
ConditionalParts ==
  { [t |-> t, amp |-> TRUE, f |-> f] : t \in BranchTexts, f \in BranchTexts }
    \cup { [t |-> t, amp |-> FALSE, f |-> ""] : t \in BranchTexts }

ConditionalString(p) ==
  Chars("%<a?" \o p.t \o (IF p.amp THEN "&" \o p.f ELSE "") \o ">")

\* A caller parses "%<a?true&false>" or "%<a?true>"
ParseConditional ==
  /\ \E p \in ConditionalParts :
       exp' = TestRun("conditional", 0, ConditionalString(p), p,
                      expando_parse(ConditionalString(p), nested_if_else_defs), TRUE)
  /\ UNCHANGED <<now, gmtoff, rdata, args, node, parsed_until, error, last, aborted,
                 call, prev, qs, dialogs>>

NextExpando ==
  \/ test_expando_formatted_expando
  \/ test_expando_nested_if_else
  \/ test_expando_new_if_else
  \/ ParseFormat
  \/ ParseConditional

SpecExpando == InitParse /\ [][NextExpando]_vars

(* ------------------------------- C14 ----------------------------------- *)

\* The last string parsed was this test's input, or one of this family
Tested(test) == exp.made /\ exp.test = test

\* The format a prefix made of these parts describes, with every part that
\* is absent at its default
PartsFormat(p) ==
  << ExpandoFormat(Decimal(Chars(p.min)),
                   IF p.max = "" THEN INT_MAX ELSE Decimal(Tail(Chars(p.max))),
                   IF p.just = "-" THEN JUSTIFY_LEFT
                   ELSE IF p.just = "=" THEN JUSTIFY_CENTER ELSE JUSTIFY_RIGHT,
                   IF p.zero = "0" THEN "0" ELSE " ") >>

\* The prefix is empty
NoPrefix(p) == p.just = "" /\ p.zero = "" /\ p.min = "" /\ p.max = ""

\* The field X with this format
FieldX(format) == << node_expando_new(formatted_expando_defs[1], format) >>

\* The eight fields are the even children of the root, with " " between
EightFields(fmts) ==
  /\ exp.ok /\ exp.err = NoError
  /\ Len(exp.node[1].children) = 15
  /\ \A k \in 0..7 : node_get_child(exp.node, 2 * k) = FieldX(fmts[k + 1])
  /\ \A k \in 0..6 : node_get_child(exp.node, 2 * k + 1) = << node_text_new(<<" ">>) >>

FieldOf(c) == << node_expando_new(find_definition(nested_if_else_defs, c)[1], NULL) >>

CondOf(c, t, f) ==
  << node_condition_new(
       << node_condbool_new(find_definition(nested_if_else_defs, c)[1]) >>, t, f) >>

\* The tree of a branch text parsed on its own
BranchTree(text) == expando_parse(Chars(text), nested_if_else_defs).node

\* The last string parsed was the input of this block of nested_if_else.c
Block(b) == Tested("nested_if_else") /\ exp.block = b

\* C15: `%<a?%<b?%c&%d>&%<e?%f&%g>>` gives a root conditional on a whose true
\* branch is a conditional on b with the fields c and d and whose false
\* branch is a conditional on e with the fields f and g; and a conditional
\* whose branches hold conditionals, to depth three, has as its branches the
\* trees of the two branch texts parsed on their own, so that each inner '&'
\* and '>' belongs to the innermost open '%<'
C15_NestedConditionals ==
  /\ Block(1) =>
       /\ exp.passed
       /\ exp.node = CondOf("a", CondOf("b", FieldOf("c"), FieldOf("d")),
                                 CondOf("e", FieldOf("f"), FieldOf("g")))
  /\ (Tested("conditional") /\ exp.parts.amp) =>
       /\ exp.ok /\ exp.err = NoError
       /\ exp.node = CondOf("a", BranchTree(exp.parts.t), BranchTree(exp.parts.f))

C15_Witness ==
  /\ Tested("conditional")
  /\ exp.parts.t = "%<b?%<e?%f&%g>&%d>" /\ exp.parts.amp /\ exp.parts.f = "%<b?%c&%d>"
  /\ node_get_child(node_get_child(node_get_child(exp.node, ENC_TRUE), ENC_TRUE), ENC_FALSE)
       = FieldOf("g")

\* C16: a conditional whose true-branch text is empty and whose false branch
\* is F has no true branch (NULL, not an empty text node) and the false
\* branch F, at the top and nested in either branch; in
\* `%<a?%<b?%c&%d>&%<e?&%f>>` e has no true branch and the false branch f,
\* in `%<a?%<b?&%c>&%<e?%f&%g>>` b has no true branch and the false branch
\* c, and the other conditionals are as in the fully populated form
C16_EmptyTrueBranch ==
  /\ Block(3) =>
       /\ exp.passed
       /\ exp.node = CondOf("a", CondOf("b", FieldOf("c"), FieldOf("d")),
                                 CondOf("e", NULL, FieldOf("f")))
  /\ Block(5) =>
       /\ exp.passed
       /\ exp.node = CondOf("a", CondOf("b", NULL, FieldOf("c")),
                                 CondOf("e", FieldOf("f"), FieldOf("g")))
  /\ (Tested("conditional") /\ exp.parts.t = "" /\ exp.parts.amp /\ exp.parts.f # "") =>
       /\ exp.ok
       /\ node_get_child(exp.node, ENC_TRUE) = NULL
       /\ node_get_child(exp.node, ENC_FALSE) # NULL
       /\ node_get_child(exp.node, ENC_FALSE) = BranchTree(exp.parts.f)
  /\ (Tested("conditional") /\ exp.parts.t = "%<b?&%d>") =>
       node_get_child(exp.node, ENC_TRUE) = CondOf("b", NULL, FieldOf("d"))
  /\ (Tested("conditional") /\ exp.parts.amp /\ exp.parts.f = "%<b?&%d>") =>
       node_get_child(exp.node, ENC_FALSE) = CondOf("b", NULL, FieldOf("d"))

C16_Witness ==
  /\ Block(3)
  /\ exp.passed
  /\ node_get_child(node_get_child(exp.node, ENC_FALSE), ENC_TRUE) = NULL
  /\ node_get_child(node_get_child(exp.node, ENC_FALSE), ENC_FALSE) = FieldOf("f")

\* C17: a conditional without the '&' clause has no false branch (NULL) and
\* the true branch T; in `%<a?%<b?%c>&%<e?%f&%g>>` b has no false branch and
\* the '&' after its '>' starts the false branch of a, and in
\* `%<a?%<b?%c&%d>&%<e?%f>>` e has no false branch
C17_OmittedFalseBranch ==
  /\ Block(4) =>
       /\ exp.passed
       /\ exp.node = CondOf("a", CondOf("b", FieldOf("c"), NULL),
                                 CondOf("e", FieldOf("f"), FieldOf("g")))
  /\ Block(2) =>
       /\ exp.passed
       /\ exp.node = CondOf("a", CondOf("b", FieldOf("c"), FieldOf("d")),
                                 CondOf("e", FieldOf("f"), NULL))
  /\ (Tested("conditional") /\ ~exp.parts.amp) =>
       /\ exp.ok
       /\ node_get_child(exp.node, ENC_FALSE) = NULL
       /\ node_get_child(exp.node, ENC_TRUE) = BranchTree(exp.parts.t)
  /\ (Tested("conditional") /\ exp.parts.t = "%<b?%c>" /\ exp.parts.amp) =>
       /\ node_get_child(exp.node, ENC_TRUE) = CondOf("b", FieldOf("c"), NULL)
       /\ node_get_child(exp.node, ENC_FALSE) = BranchTree(exp.parts.f)

C17_Witness ==
  /\ Block(4)
  /\ exp.passed
  /\ node_get_child(node_get_child(exp.node, ENC_TRUE), ENC_FALSE) = NULL
  /\ node_get_child(exp.node, ENC_FALSE) = CondOf("e", FieldOf("f"), FieldOf("g"))

\* The field with this name of new_if_else.c, with min_cols 4, max_cols
\* unbounded, right justification and the leader ' '
Field4(c) ==
  << node_expando_new(find_definition(new_if_else_defs, c)[1],
                      << ExpandoFormat(4, INT_MAX, JUSTIFY_RIGHT, " ") >>) >>

\* The conditional on l of new_if_else.c with these branches
CondL(t, f) ==
  << node_condition_new(<< node_condbool_new(find_definition(new_if_else_defs, "l")[1]) >>,
                        t, f) >>

\* C18: `if: %<l?%4l>  if-else: %<l?%4l&%4c>` gives four children: the text
\* "if: ", a conditional on l with the true branch %4l and no false branch,
\* the text "  if-else: ", and a conditional on l with the branches %4l and
\* %4c, every field with the Format-Spec {4, unbounded, right, ' '}
C18_TextAndConditionals ==
  Tested("new_if_else") =>
    /\ exp.passed
    /\ exp.ok /\ exp.err = NoError
    /\ exp.node[1].type = ENT_CONTAINER
    /\ exp.node[1].children =
         << << node_text_new(Chars("if: ")) >>,
            CondL(Field4("l"), NULL),
            << node_text_new(Chars("  if-else: ")) >>,
            CondL(Field4("l"), Field4("c")) >>

C18_Witness ==
  /\ Tested("new_if_else")
  /\ exp.passed
  /\ Len(exp.node[1].children) = 4
  /\ node_get_child(node_get_child(exp.node, 3), ENC_FALSE) = Field4("c")

(* ==================== quote styles (color/qstyle.c) ==================== *)
(* The tree of quote styles the pager keeps: the styles are the cells of a  *)
(* heap, a pointer to a style is its index in the heap, and NullStyle is    *)
(* the NULL pointer.  qstyle_classify runs as its loops do, one iteration   *)
(* at a time, on a record of its arguments and local variables.             *)

NullStyle == 0
NoIndex == -1

\* qstyle_new: a zeroed struct QuoteStyle
qstyle_new ==
  [prefix |-> <<>>, quote_n |-> 0, next |-> NullStyle, prev |-> NullStyle,
   up |-> NullStyle, down |-> NullStyle]

\* mutt_strn_equal(a + i, b + j, num): the first num bytes are the same
mutt_strn_equal(a, i, b, j, num) ==
  \A k \in 0..(num - 1) : CharAt(a, i + k) = CharAt(b, j + k)

\* p->field = v
SetField(h, p, field, v) == [h EXCEPT ![p] = [@ EXCEPT ![field] = v]]

\* if (p) p->field = v
SetFieldIf(h, p, field, v) == IF p = NullStyle THEN h ELSE SetField(h, p, field, v)

(* qstyle_insert *)

RECURSIVE qstyle_insert_climb(_, _)
\* The inner loop of the walk: up from a style without a next sibling to
\* the first ancestor that has one, then to that sibling
qstyle_insert_climb(h, q) ==
  IF h[q].next # NullStyle THEN h[q].next
  ELSE IF h[q].up = NullStyle THEN NullStyle
  ELSE qstyle_insert_climb(h, h[q].up)

\* The style the walk visits after q
qstyle_insert_next(h, q) ==
  IF h[q].down # NullStyle THEN h[q].down
  ELSE IF h[q].next # NullStyle THEN h[q].next
  ELSE qstyle_insert_climb(h, q)

\* Mutant: the class numbered index keeps its number
qstyle_insert_bump_above(h, q, index) ==
  IF h[q].quote_n > index THEN SetField(h, q, "quote_n", h[q].quote_n + 1) ELSE h

\* The body of the walk at q: quote_n moves up by one from index on
qstyle_insert_bump(h, q, index) ==
  IF h[q].quote_n >= index THEN SetField(h, q, "quote_n", h[q].quote_n + 1) ELSE h

RECURSIVE qstyle_insert_walk(_, _, _)
qstyle_insert_walk(h, q, index) ==
  IF q = NullStyle THEN h
  ELSE qstyle_insert_walk(qstyle_insert_bump(h, q, index), qstyle_insert_next(h, q), index)

\* qstyle_insert: the heap after the new class was numbered index
qstyle_insert(h, quote_list, new_class, index) ==
  SetField(qstyle_insert_walk(SetField(h, new_class, "quote_n", -1), quote_list, index),
           new_class, "quote_n", index)

(* qstyle_classify *)

\* The arguments and local variables on entry
classify_entry(q, qptr) ==
  [h |-> q.heap, quote_list |-> q.quote_list, q_level |-> q.q_level,
   force_redraw |-> q.redraw_in, qptr |-> qptr, length |-> Len(qptr),
   q_list |-> q.quote_list, qc |-> NullStyle, tmp |-> NullStyle, ptr |-> NullStyle,
   save |-> NullStyle, offset |-> 0, index |-> NoIndex, pc |-> "outer",
   ret |-> NullStyle]

\* return p
classify_return(m, p) == [m EXCEPT !.pc = "done", !.ret = p]

\* q_list = q_list->next; continue
classify_next(m) == [m EXCEPT !.q_list = m.h[m.q_list].next]

\* tmp = qstyle_new() with the prefix copied: the new style is the last cell
classify_alloc(m) ==
  [m EXCEPT !.h = Append(m.h, [qstyle_new EXCEPT !.prefix = m.qptr]),
            !.tmp = Len(m.h) + 1]

\* replace q by t in the list of its siblings
replace_next(h, q, t) ==
  IF h[q].next = NullStyle THEN h
  ELSE SetField(SetField(h, t, "next", h[q].next), h[q].next, "prev", t)

replace_prev(h, q, t) ==
  IF h[q].prev = NullStyle THEN h
  ELSE SetField(SetField(h, t, "prev", h[q].prev), h[q].prev, "next", t)

\* q has no siblings
no_siblings(h, q) == SetField(SetField(h, q, "next", NullStyle), q, "prev", NullStyle)

\* case 1, no tmp yet: a node above q_list in the top level list
above_top_links(h, q, t) ==
  no_siblings(SetField(SetField(replace_prev(replace_next(h, q, t), q, t),
                                t, "down", q), q, "up", t), q)

above_top_vars(m, q) ==
  [m EXCEPT !.quote_list = IF q = m.quote_list THEN m.tmp ELSE @,
            !.index = m.h[q].quote_n,
            !.qc = m.tmp,
            !.q_list = m.h[m.tmp].next,
            !.force_redraw = TRUE]

above_top_linked(m, q) == above_top_vars([m EXCEPT !.h = above_top_links(m.h, q, m.tmp)], q)

above_top(m) == above_top_linked(classify_alloc(m), m.q_list)

RECURSIVE last_sibling(_, _)
\* while (ptr->next) ptr = ptr->next
last_sibling(h, p) == IF h[p].next = NullStyle THEN p ELSE last_sibling(h, h[p].next)

\* unlink q from the list of its siblings
unlink(h, q) ==
  SetFieldIf(SetFieldIf(h, h[q].next, "prev", h[q].prev), h[q].prev, "next", h[q].next)

\* link q as the last child of t, after the child e
link_last(h, q, t, e) ==
  SetField(SetField(SetField(SetField(h, e, "next", q), q, "next", NullStyle),
                    q, "prev", e), q, "up", t)

\* another branch for which tmp is a shorter prefix: q_list moves below tmp
another_branch_links(h, q, t) == link_last(unlink(h, q), q, t, last_sibling(unlink(h, q), h[t].down))

another_branch(m) ==
  [m EXCEPT !.save = m.h[m.q_list].next,
            !.h = another_branch_links(m.h, m.q_list, m.tmp),
            !.ptr = last_sibling(unlink(m.h, m.q_list), m.h[m.tmp].down),
            !.index = m.h[m.q_list].quote_n,
            !.q_list = m.h[m.q_list].next,
            !.force_redraw = TRUE]

\* below the top level, no tmp yet: a node above q_list, below its parent
above_child_down(h, q, t) ==
  IF h[h[t].up].down = q THEN SetField(h, h[t].up, "down", t) ELSE h

above_child_links(h, q, t) ==
  no_siblings(
    above_child_down(
      SetField(SetField(SetField(replace_prev(replace_next(h, q, t), q, t),
                                 t, "down", q), t, "up", h[q].up), q, "up", t),
      q, t),
    q)

above_child_vars(m, q) ==
  [m EXCEPT !.index = m.h[q].quote_n,
            !.qc = m.tmp,
            !.q_list = m.h[m.tmp].next,
            !.force_redraw = TRUE]

above_child_linked(m, q) ==
  above_child_vars([m EXCEPT !.h = above_child_links(m.h, q, m.tmp)], q)

\* Mutant: a node above q_list, below its parent, asks for no redraw
above_child_quiet(m) ==
  [above_child_linked(classify_alloc(m), m.q_list) EXCEPT !.force_redraw = m.force_redraw]

above_child(m) == above_child_linked(classify_alloc(m), m.q_list)

\* go down one level: q_list becomes the parent
go_down(m) ==
  [m EXCEPT !.ptr = m.q_list,
            !.offset = Len(m.h[m.q_list].prefix),
            !.q_list = m.h[m.q_list].down,
            !.pc = "inner"]

\* not found below ptr: the new class is the first child of ptr
first_child_links(h, p, t, n) ==
  SetField(SetField(SetField(
    IF h[p].down = NullStyle THEN h
    ELSE SetField(SetField(h, t, "next", h[p].down), h[p].down, "prev", t),
    p, "down", t), t, "up", p), t, "quote_n", n)

first_child_linked(m) ==
  [m EXCEPT !.h = first_child_links(m.h, m.ptr, m.tmp, m.q_level),
            !.q_level = m.q_level + 1,
            !.pc = "done",
            !.ret = m.tmp]

first_child(m) == first_child_linked(classify_alloc(m))

\* if (index != -1) qstyle_insert(*quote_list, tmp, index, q_level); return qc
insert_and_return(m) ==
  IF m.index = NoIndex THEN classify_return(m, m.qc)
  ELSE [m EXCEPT !.h = qstyle_insert(m.h, m.quote_list, m.tmp, m.index),
                 !.q_level = m.q_level + 1,
                 !.pc = "done",
                 !.ret = m.qc]

\* not found at all: a new top level class, placed after the first one
top_class_links(h, head, c, n) ==
  SetField(
    IF head = NullStyle THEN h
    ELSE SetField(SetField(
           IF h[head].next = NullStyle THEN h
           ELSE SetField(SetField(h, c, "next", h[head].next), h[head].next, "prev", c),
           head, "next", c), c, "prev", head),
    c, "quote_n", n)

top_class_linked(m) ==
  [m EXCEPT !.h = top_class_links(m.h, m.quote_list, m.tmp, m.q_level),
            !.q_level = m.q_level + 1,
            !.qc = m.tmp,
            !.tmp = NullStyle,
            !.quote_list = IF m.quote_list = NullStyle THEN m.tmp ELSE @]

\* Mutant: the new top level class is linked after the head without its prev
top_class_one_way(m) ==
  [top_class_linked(classify_alloc(m)) EXCEPT
     !.h = SetField(@, Len(m.h) + 1, "prev", NullStyle)]

top_class(m) == top_class_linked(classify_alloc(m))

\* after the outer loop
after_outer(m) == insert_and_return(IF m.qc = NullStyle THEN top_class(m) ELSE m)

\* after the inner loop
after_inner(m) == IF m.qc = NullStyle THEN first_child(m) ELSE insert_and_return(m)

\* Mutant: an equal prefix is treated as a shorter one
outer_step_no_return(m) ==
  IF m.q_list = NullStyle THEN after_outer(m)
  ELSE IF m.length <= Len(m.h[m.q_list].prefix)
  THEN IF mutt_strn_equal(m.qptr, 0, m.h[m.q_list].prefix, 0, m.length)
       THEN IF m.tmp # NullStyle THEN another_branch(m)
            ELSE above_top(m)
       ELSE classify_next(m)
  ELSE IF m.tmp = NullStyle
          /\ mutt_strn_equal(m.qptr, 0, m.h[m.q_list].prefix, 0, Len(m.h[m.q_list].prefix))
  THEN go_down(m)
  ELSE classify_next(m)

\* One iteration of the outer loop, over the top level list
outer_step(m) ==
  IF m.q_list = NullStyle THEN after_outer(m)
  ELSE IF m.length <= Len(m.h[m.q_list].prefix)
  THEN IF mutt_strn_equal(m.qptr, 0, m.h[m.q_list].prefix, 0, m.length)
       THEN IF m.length = Len(m.h[m.q_list].prefix) THEN classify_return(m, m.q_list)
            ELSE IF m.tmp # NullStyle THEN another_branch(m)
            ELSE above_top(m)
       ELSE classify_next(m)
  ELSE IF m.tmp = NullStyle
          /\ mutt_strn_equal(m.qptr, 0, m.h[m.q_list].prefix, 0, Len(m.h[m.q_list].prefix))
  THEN go_down(m)
  ELSE classify_next(m)

\* Mutant: below ptr every shorter class is taken for a prefix
inner_step_any_branch(m) ==
  IF m.q_list = NullStyle THEN after_inner(m)
  ELSE IF m.length <= Len(m.h[m.q_list].prefix)
  THEN IF mutt_strn_equal(m.qptr, m.offset, m.h[m.q_list].prefix, m.offset,
                          m.length - m.offset)
       THEN IF m.length = Len(m.h[m.q_list].prefix) THEN classify_return(m, m.q_list)
            ELSE IF m.tmp = NullStyle THEN above_child(m)
            ELSE another_branch(m)
       ELSE classify_next(m)
  ELSE IF m.tmp = NullStyle
  THEN go_down(m)
  ELSE classify_next(m)

\* One iteration of the inner loop, over the children of ptr and below
inner_step(m) ==
  IF m.q_list = NullStyle THEN after_inner(m)
  ELSE IF m.length <= Len(m.h[m.q_list].prefix)
  THEN IF mutt_strn_equal(m.qptr, m.offset, m.h[m.q_list].prefix, m.offset,
                          m.length - m.offset)
       THEN IF m.length = Len(m.h[m.q_list].prefix) THEN classify_return(m, m.q_list)
            ELSE IF m.tmp = NullStyle THEN above_child(m)
            ELSE another_branch(m)
       ELSE classify_next(m)
  ELSE IF m.tmp = NullStyle
          /\ mutt_strn_equal(m.qptr, m.offset, m.h[m.q_list].prefix, m.offset,
                             Len(m.h[m.q_list].prefix) - m.offset)
  THEN go_down(m)
  ELSE classify_next(m)

RECURSIVE classify_run(_)
\* The loops, run to the return
classify_run(m) ==
  IF m.pc = "done" THEN m
  ELSE IF m.pc = "outer" THEN classify_run(outer_step(m))
  ELSE classify_run(inner_step(m))

\* qstyle_classify: the heap, the caller's *quote_list, *q_level and
\* *force_redraw, and the class returned
qstyle_result(m, redraw_in) ==
  [heap |-> m.h, quote_list |-> m.quote_list, q_level |-> m.q_level,
   redraw_in |-> redraw_in, force_redraw |-> m.force_redraw, ret |-> m.ret,
   qptr |-> m.qptr]

qstyle_classify(q, qptr, redraw) ==
  qstyle_result(classify_run(classify_entry([q EXCEPT !.redraw_in = redraw], qptr)), redraw)

\* Number of classes the pager is let to create
MaxClasses == 4

\* The quote prefixes of the lines of a message
QuotePrefixes ==
  { Chars(">"), Chars(">>"), Chars(">|"), Chars(">>>"), Chars(">>|"),
    Chars(">|>"), Chars(">||"), Chars("|"), Chars("|>"), Chars("|>>") }

\* The prefix is that of a class of the tree
Classified(h, qptr) == \E i \in 1..Len(h) : h[i].prefix = qptr

\* The pager classifies the quote prefix of a line
Classify ==
  /\ \E qptr \in QuotePrefixes, redraw \in BOOLEAN :
       /\ Len(qs.heap) < MaxClasses \/ Classified(qs.heap, qptr)
       /\ qs' = qstyle_classify(qs, qptr, redraw)
  /\ UNCHANGED <<now, gmtoff, rdata, args, node, parsed_until, error, last, aborted,
                 call, prev, exp, dialogs>>

NextQuote == Classify

SpecQuote == InitParse /\ [][NextQuote]_vars

(* ---------------------------- C19, C20 ---------------------------------- *)

RECURSIVE Reachable(_, _)
\* The classes reached from the classes of S by next and down pointers
Reachable(h, S) ==
  IF (S \cup { h[i].next : i \in S } \cup { h[i].down : i \in S }) \ {NullStyle} = S
  THEN S
  ELSE Reachable(h, (S \cup { h[i].next : i \in S } \cup { h[i].down : i \in S }) \ {NullStyle})

\* The classes of the tree
TreeClasses == Reachable(qs.heap, {qs.quote_list} \ {NullStyle})

\* q_level is the number of classes, and their quote_n are distinct and are
\* the numbers below q_level
NumberedUpToLevel ==
  /\ qs.q_level = Cardinality(TreeClasses)
  /\ \A i, j \in TreeClasses : i # j => qs.heap[i].quote_n # qs.heap[j].quote_n
  /\ { qs.heap[i].quote_n : i \in TreeClasses } = 0..(qs.q_level - 1)

\* A call adds one to q_level when it returns a class it created and leaves
\* q_level as it was when it returns a class that was there
LevelStep ==
  /\ qs'.ret # NullStyle
  /\ (qs'.ret \notin 1..Len(qs.heap)) => qs'.q_level = qs.q_level + 1
  /\ (qs'.ret \in 1..Len(qs.heap)) => qs'.q_level = qs.q_level

\* C19: from the empty list with q_level = 0, after any calls of
\* qstyle_classify q_level is the number of classes in the tree and the
\* quote_n of the classes are pairwise distinct and are exactly 0 ..
\* q_level-1; each call adds 1 to q_level when it creates a class and 0 when
\* it returns an existing one
C19_LevelCountsClasses == [](NumberedUpToLevel) /\ [][LevelStep]_vars

C19_Witness ==
  /\ qs.q_level = Len(qs.heap)
  /\ Len(qs.heap) >= 3
  /\ qs.ret = Len(qs.heap)
  /\ qs.heap[qs.ret].down # NullStyle
  /\ qs.heap[qs.ret].quote_n < qs.heap[qs.heap[qs.ret].down].quote_n
  /\ \E i \in 1..Len(qs.heap) : qs.heap[i].quote_n # i - 1

\* A call with a prefix that has a class returns that class and changes
\* nothing; every call returns a class with the prefix it was given, and no
\* class ever changes its prefix
SamePrefixSameClass ==
  /\ qs'.ret # NullStyle
  /\ qs'.heap[qs'.ret].prefix = qs'.qptr
  /\ \A i \in 1..Len(qs.heap) : qs'.heap[i].prefix = qs.heap[i].prefix
  /\ Classified(qs.heap, qs'.qptr) =>
       /\ \A i \in 1..Len(qs.heap) : qs.heap[i].prefix = qs'.qptr => qs'.ret = i
       /\ qs'.heap = qs.heap
       /\ qs'.quote_list = qs.quote_list
       /\ qs'.q_level = qs.q_level
       /\ qs'.force_redraw = qs'.redraw_in

\* C20: a call of qstyle_classify with a prefix that an earlier call has
\* classified returns the class that call returned, creates no class, and
\* leaves the tree, every quote_n, q_level and *force_redraw as they were,
\* whatever other prefixes were classified in between
C20_ClassifyAgain == [][SamePrefixSameClass]_vars

C20_Witness ==
  /\ Len(qs.heap) >= 3
  /\ qs.ret # NullStyle
  /\ qs.ret < Len(qs.heap)
  /\ qs.heap[qs.ret].up # NullStyle
  /\ qs.heap[qs.ret].down # NullStyle
  /\ qs.redraw_in /\ qs.force_redraw

(* ---------------------------- C21 .. C23 --------------------------------- *)

RECURSIVE Chain(_, _, _)
\* The classes of the list of siblings that starts at c, followed by next
\* for at most k steps
Chain(h, c, k) ==
  IF c = NullStyle \/ k = 0 THEN {}
  ELSE {c} \cup Chain(h, h[c].next, k - 1)

\* The number of pointers of the tree that lead to the class n: *quote_list,
\* the next of a sibling, the down of a parent
PointersTo(n) ==
  Cardinality({ i \in 1..Len(qs.heap) : qs.heap[i].next = n })
    + Cardinality({ i \in 1..Len(qs.heap) : qs.heap[i].down = n })
    + (IF qs.quote_list = n THEN 1 ELSE 0)

\* C21: after every call of qstyle_classify next and prev are inverse to
\* each other, the classes of the list at p.down have up = p, the classes of
\* the top level list have up = NULL, *quote_list is the head of the top
\* level list (prev = NULL), and every class is reached from *quote_list
\* exactly once: no cycle, no class left out
C21_TreeConsistent ==
  /\ \A n \in 1..Len(qs.heap) :
       /\ qs.heap[n].next # NullStyle => qs.heap[qs.heap[n].next].prev = n
       /\ qs.heap[n].prev # NullStyle => qs.heap[qs.heap[n].prev].next = n
       /\ \A c \in Chain(qs.heap, qs.heap[n].down, Len(qs.heap)) : qs.heap[c].up = n
       /\ PointersTo(n) = 1
  /\ \A c \in Chain(qs.heap, qs.quote_list, Len(qs.heap)) : qs.heap[c].up = NullStyle
  /\ qs.quote_list # NullStyle => qs.heap[qs.quote_list].prev = NullStyle
  /\ qs.quote_list = NullStyle => qs.heap = <<>>
  /\ TreeClasses = 1..Len(qs.heap)

C21_Witness ==
  /\ Len(qs.heap) = MaxClasses
  /\ qs.ret = Len(qs.heap)
  /\ qs.heap[qs.ret].up # NullStyle
  /\ qs.heap[qs.ret].prev # NullStyle
  /\ qs.heap[qs.ret].down # NullStyle
  /\ qs.heap[qs.heap[qs.ret].down].up = qs.ret

\* The bytes a are the first bytes of b, and b is longer
ProperPrefix(a, b) == Len(a) < Len(b) /\ SubSeq(b, 1, Len(a)) = a

RECURSIVE Ancestors(_, _, _)
\* The classes above c, followed by up for at most k steps
Ancestors(h, c, k) ==
  IF k = 0 \/ h[c].up = NullStyle THEN {}
  ELSE {h[c].up} \cup Ancestors(h, h[c].up, k - 1)

\* The classes of the top level list
TopLevel(q) == Chain(q.heap, q.quote_list, Len(q.heap))

\* The prefix of a class extends that of its parent, and no class of the
\* top level list has a prefix that starts another one of that list
PrefixOrdered ==
  /\ \A c \in 1..Len(qs.heap) :
       qs.heap[c].up # NullStyle =>
         ProperPrefix(qs.heap[qs.heap[c].up].prefix, qs.heap[c].prefix)
  /\ \A a, b \in TopLevel(qs) :
       a # b => ~ProperPrefix(qs.heap[a].prefix, qs.heap[b].prefix)
                /\ qs.heap[a].prefix # qs.heap[b].prefix

\* The classes of q whose prefix the bytes qptr extend
Extended(q, qptr) == { c \in 1..Len(q.heap) : ProperPrefix(q.heap[c].prefix, qptr) }

\* The classes of q whose prefix extends the bytes qptr
Extending(q, qptr) == { c \in 1..Len(q.heap) : ProperPrefix(qptr, q.heap[c].prefix) }

\* A call that creates a class puts it below the class with the longest
\* prefix it extends, at the top level when there is none, and above every
\* class whose prefix extends its own
PlacedByPrefix ==
  ~Classified(qs.heap, qs'.qptr) =>
    /\ qs'.ret = Len(qs.heap) + 1
    /\ Extended(qs, qs'.qptr) = {} => qs'.ret \in TopLevel(qs')
    /\ \A e \in Extended(qs, qs'.qptr) :
         (\A o \in Extended(qs, qs'.qptr) : Len(qs.heap[o].prefix) <= Len(qs.heap[e].prefix))
           => qs'.heap[qs'.ret].up = e
    /\ \A c \in Extending(qs, qs'.qptr) :
         /\ qs'.ret \in Ancestors(qs'.heap, c, Len(qs'.heap))
         /\ c \in TopLevel(qs) => qs'.heap[c].up = qs'.ret /\ qs'.ret \in TopLevel(qs')

\* C22: after every call of qstyle_classify the prefix of each class is a
\* strict extension of the prefix of its parent, and no top level class has
\* a prefix that is a prefix of another top level class; a call with a
\* prefix shorter than top level classes creates a class above all of them
\* that it prefixes, and a call with a longer prefix adds it below the
\* deepest class it extends
C22_PrefixOrder == [](PrefixOrdered) /\ [][PlacedByPrefix]_vars

\* a class was created above two top level classes, next to a third
C22_Witness ==
  /\ Len(qs.heap) = MaxClasses
  /\ qs.ret = Len(qs.heap)
  /\ qs.ret \in TopLevel(qs)
  /\ Cardinality(TopLevel(qs)) = 2
  /\ Cardinality(Chain(qs.heap, qs.heap[qs.ret].down, Len(qs.heap))) = 2

\* The call moved a class that was there below the class it created, whose
\* prefix is shorter
Reparented ==
  \E c \in 1..Len(qs.heap) :
    /\ qs'.heap[c].up = Len(qs.heap) + 1
    /\ qs.heap[c].up # Len(qs.heap) + 1
    /\ ProperPrefix(qs'.heap[Len(qs.heap) + 1].prefix, qs'.heap[c].prefix)

\* *force_redraw is true after a call that moved a class below a new one,
\* and is what it was on entry after every other call
RedrawStep ==
  /\ Reparented => qs'.force_redraw
  /\ ~Reparented => qs'.force_redraw = qs'.redraw_in
  /\ qs'.redraw_in => qs'.force_redraw
  /\ Reparented <=> (qs'.ret = Len(qs.heap) + 1 /\ qs'.heap[qs'.ret].down # NullStyle)
  /\ (qs'.ret <= Len(qs.heap) \/ qs'.heap[qs'.ret].down = NullStyle) =>
       qs'.force_redraw = qs'.redraw_in

\* C23: qstyle_classify sets *force_redraw to true exactly in the calls in
\* which a class that was there is moved below a new class with a shorter
\* prefix; in every other call (a class that was there is returned, a new
\* top level class, a new leaf) *force_redraw is left as it was on entry,
\* and no call sets it to false
C23_RedrawOnReparent == [][RedrawStep]_vars

\* a call entered with *force_redraw false moved two classes of a parent
\* below a new class and left it true
C23_Witness ==
  /\ ~qs.redraw_in /\ qs.force_redraw
  /\ qs.ret = Len(qs.heap)
  /\ qs.heap[qs.ret].up # NullStyle
  /\ Cardinality(Chain(qs.heap, qs.heap[qs.ret].down, Len(qs.heap))) = 2

(* ==================== file browser (browser/dlg_browser.c) ============== *)

(* file_tag *)

\* The file types of st_mode that examine_directory lets into the browser
FileModes == { "S_IFREG", "S_IFDIR", "S_IFLNK" }

S_ISDIR(mode) == mode = "S_IFDIR"

S_ISLNK(mode) == mode = "S_IFLNK"

\* Number of entries the browser is let to hold
MaxEntries == 3

\* The names of the files of the directory, by their place in it
FileNames == << <<"a">>, <<"b">>, <<"c">>, <<"d">> >>

\* The values of act that the menu tags with, and one that is neither
\* 0 nor 1
TagActs == { -1, 0, 1, 2 }

\* struct FolderFile ff = { 0 }
FolderFileZero ==
  [mode |-> "0", local |-> FALSE, has_mailbox |-> FALSE, gen |-> 0,
   has_new_mail |-> FALSE, msg_count |-> 0, msg_unread |-> 0, notify_user |-> FALSE,
   poll_new_mail |-> FALSE, name |-> NULL, desc |-> NULL, tagged |-> FALSE]

\* if (st) ...: the mode of the file, local
folder_file_stat(ff, st) ==
  IF st # NULL THEN [ff EXCEPT !.mode = st[1].st_mode, !.local = TRUE] ELSE ff

\* if (m) ...: the counts and flags of the mailbox
folder_file_mailbox(ff, m) ==
  IF m # NULL
  THEN [ff EXCEPT !.has_mailbox = TRUE, !.gen = m[1].gen, !.has_new_mail = m[1].has_new,
                  !.msg_count = m[1].msg_count, !.msg_unread = m[1].msg_unread,
                  !.notify_user = m[1].notify_user, !.poll_new_mail = m[1].poll_new_mail]
  ELSE ff

\* ff.name = mutt_str_dup(name); ff.desc = mutt_str_dup(desc ? desc : name)
folder_file_names(ff, name, desc) ==
  [ff EXCEPT !.name = name, !.desc = IF desc # NULL THEN desc ELSE name]

\* browser_add_folder: the browser state s with one more entry, unless the
\* mailbox is hidden
browser_add_folder(has_menu, s, name, desc, st, m) ==
  IF (~has_menu \/ s.is_mailbox_list) /\ m # NULL /\ ~m[1].visible THEN s
  ELSE [s EXCEPT !.entry =
          Append(@, folder_file_names(
                      folder_file_mailbox(folder_file_stat(FolderFileZero, st), m),
                      name, desc))]

\* link_is_dir: stat() of the link succeeds and finds a directory
link_is_dir(links, name) == name \in links

\* The test of file_tag: the entry is a directory or a link to one
is_directory(m, ff) ==
  S_ISDIR(ff.mode) \/ (S_ISLNK(ff.mode) /\ link_is_dir(m.links, ff.name))

\* An int assigned to a bool
ToBool(i) == i # 0

\* Mutant: every act toggles the entry
file_tag_value_toggle(ff, act) == ~ff.tagged

\* ff->tagged = ((act >= 0) ? act : !ff->tagged)
file_tag_value(ff, act) == IF act >= 0 THEN ToBool(act) ELSE ~ff.tagged

\* A bool as an int
ToInt(b) == IF b THEN 1 ELSE 0

\* file_tag: the menu after the call, with the value returned in ret and
\* added to the sum that the caller keeps
file_tag(m, sel, act) ==
  IF is_directory(m, m.entry[sel])
  THEN [m EXCEPT !.sel = sel, !.act = act, !.ret = 0]
  ELSE [m EXCEPT !.sel = sel, !.act = act,
                 !.entry[sel].tagged = file_tag_value(m.entry[sel], act),
                 !.ret = ToInt(file_tag_value(m.entry[sel], act)) - ToInt(m.entry[sel].tagged),
                 !.sum = @ + ToInt(file_tag_value(m.entry[sel], act))
                           - ToInt(m.entry[sel].tagged)]

\* The browser reads one more file of the directory
AddFolder ==
  /\ Len(menu.entry) < MaxEntries
  /\ \E mode \in FileModes :
       menu' = browser_add_folder(TRUE, menu, FileNames[Len(menu.entry) + 1], NULL,
                                  << [st_mode |-> mode] >>, NULL)
  /\ UNCHANGED <<now, gmtoff, rdata, args, node, parsed_until, error, last, aborted,
                 call, prev, exp, qs, state, dlg, exam>>

\* The target of a symbolic link of the directory is replaced: a directory
\* by a file, or a file by a directory
Retarget ==
  /\ \E i \in 1..Len(menu.entry) :
       /\ S_ISLNK(menu.entry[i].mode)
       /\ menu' = [menu EXCEPT !.links = IF menu.entry[i].name \in @
                                         THEN @ \ {menu.entry[i].name}
                                         ELSE @ \cup {menu.entry[i].name}]
  /\ UNCHANGED <<now, gmtoff, rdata, args, node, parsed_until, error, last, aborted,
                 call, prev, exp, qs, state, dlg, exam>>

\* The menu tags, untags or toggles an entry
FileTag ==
  /\ \E sel \in 1..Len(menu.entry), act \in TagActs :
       menu' = file_tag(menu, sel, act)
  /\ UNCHANGED <<now, gmtoff, rdata, args, node, parsed_until, error, last, aborted,
                 call, prev, exp, qs, state, dlg, exam>>

NextTag == AddFolder \/ Retarget \/ FileTag

SpecTag == InitParse /\ [][NextTag]_vars

(* ------------------------------- C24 ------------------------------------ *)

\* The entries that are tagged
Tagged(m) == { i \in 1..Len(m.entry) : m.entry[i].tagged }

\* One call of file_tag: a directory, or a link that leads to one, is left
\* as it was and 0 is returned; any other entry is tagged as act says, and
\* the new value minus the old one is returned
FileTagStep ==
  (menu'.entry # menu.entry \/ menu'.sum # menu.sum \/ menu'.sel # menu.sel
     \/ menu'.act # menu.act \/ menu'.ret # menu.ret) /\ Len(menu'.entry) = Len(menu.entry)
     /\ menu'.links = menu.links =>
    /\ menu'.ret \in {-1, 0, 1}
    /\ \A i \in 1..Len(menu.entry) : i # menu'.sel => menu'.entry[i] = menu.entry[i]
    /\ is_directory(menu, menu.entry[menu'.sel]) =>
         menu'.ret = 0 /\ menu'.entry = menu.entry
    /\ ~is_directory(menu, menu.entry[menu'.sel]) =>
         /\ menu'.act >= 0 => menu'.entry[menu'.sel].tagged = (menu'.act # 0)
         /\ menu'.act < 0 => menu'.entry[menu'.sel].tagged = ~menu.entry[menu'.sel].tagged
         /\ menu'.ret = ToInt(menu'.entry[menu'.sel].tagged)
                          - ToInt(menu.entry[menu'.sel].tagged)

\* The returned values add up to the number of tagged entries, and no
\* directory is tagged
TaggedCounted ==
  /\ menu.sum = Cardinality(Tagged(menu))
  /\ \A i \in Tagged(menu) : ~S_ISDIR(menu.entry[i].mode)

\* C24: file_tag on an entry that is no directory and no link to one sets
\* tagged to (act != 0) for act >= 0, toggles it for act < 0, and returns
\* new minus old, one of -1, 0, 1; on a directory it returns 0 and leaves
\* tagged as it was; so from no tagged entries the returned values add up
\* to the number of tagged entries, and no directory is ever tagged
C24_TagCount == [](TaggedCounted) /\ [][FileTagStep]_vars

\* two entries are tagged, one by act = 2, next to a directory that a call
\* left untagged
C24_Witness ==
  /\ Len(menu.entry) = MaxEntries
  /\ menu.sum = 2
  /\ menu.act = 2 /\ menu.ret = 1
  /\ \E i \in 1..Len(menu.entry) : S_ISDIR(menu.entry[i].mode)
  /\ \E i \in Tagged(menu) : S_ISLNK(menu.entry[i].mode)

(* browser_mailbox_observer *)

\* Number of mailboxes the browser is let to list
MaxMailboxes == 2

\* The counts, the flags and the name of a mailbox: all clear and no name,
\* or all set and a name
MailboxDetails ==
  { [has_new |-> FALSE, msg_count |-> 0, msg_unread |-> 0, notify_user |-> FALSE,
     poll_new_mail |-> FALSE, name |-> NULL],
    [has_new |-> TRUE, msg_count |-> 2, msg_unread |-> 1, notify_user |-> TRUE,
     poll_new_mail |-> TRUE, name |-> <<"work">>] }

\* The generation numbers of the mailboxes
MailboxGens == { 0, 1, 2 }

\* struct Mailbox with the generation number gen
Mailbox(gen, d) ==
  << [gen |-> gen, has_new |-> d.has_new, msg_count |-> d.msg_count,
      msg_unread |-> d.msg_unread, notify_user |-> d.notify_user,
      poll_new_mail |-> d.poll_new_mail, name |-> d.name, visible |-> TRUE] >>

\* The mailboxes of the account; two of them can hold the same number when
\* an entry without a mailbox (gen 0) stands before the first mailbox
Mailboxes == { Mailbox(g, d) : g \in MailboxGens, d \in MailboxDetails }

\* The events sent to the observers: the type, the subtype, the private
\* data given when the observer was added, the event's data
EventTypes == { "NT_WINDOW", "NT_MAILBOX" }

MailboxSubtypes == { "NT_MAILBOX_DELETE", "NT_MAILBOX_CHANGE" }

MailboxEvents ==
  { [event_type |-> t, event_subtype |-> u, global_data |-> g, event_data |-> e] :
      t \in EventTypes, u \in MailboxSubtypes, g \in BOOLEAN,
      e \in {NULL} \cup { << [mailbox |-> m] >> : m \in Mailboxes } }

\* menu_queue_redraw: the flag is added to those the menu is to redraw
menu_queue_redraw(queued, flag) == queued \cup {flag}

\* The body of the loop for the entry of the mailbox: its details are
\* copied
mailbox_update(ff, m) ==
  [ff EXCEPT !.has_new_mail = m[1].has_new, !.msg_count = m[1].msg_count,
             !.msg_unread = m[1].msg_unread, !.notify_user = m[1].notify_user,
             !.poll_new_mail = m[1].poll_new_mail, !.desc = m[1].name]

RECURSIVE mailbox_foreach(_, _, _)
\* ARRAY_FOREACH(ff, &state->entry) from the entry i on: the first entry
\* with the gen of the mailbox is updated, and the loop ends
mailbox_foreach(entry, m, i) ==
  IF i > Len(entry) THEN entry
  ELSE IF entry[i].gen # m[1].gen THEN mailbox_foreach(entry, m, i + 1)
  ELSE [entry EXCEPT ![i] = mailbox_update(entry[i], m)]

\* Mutant: the redraw is queued only when the mailbox list is shown
mailbox_changed_list_only(s, nc) ==
  IF s.is_mailbox_list
  THEN [s EXCEPT !.entry = mailbox_foreach(s.entry, nc.event_data[1].mailbox, 1),
                 !.queued = menu_queue_redraw(@, "MENU_REDRAW_FULL"),
                 !.ret = 0]
  ELSE [s EXCEPT !.ret = 0]

\* The observer past its tests of the event
mailbox_changed(s, nc) ==
  [s EXCEPT !.entry = IF s.is_mailbox_list
                      THEN mailbox_foreach(s.entry, nc.event_data[1].mailbox, 1)
                      ELSE @,
            !.queued = menu_queue_redraw(@, "MENU_REDRAW_FULL"),
            !.ret = 0]

\* browser_mailbox_observer: the browser state after the call, with the
\* value returned in ret and the redraws it queued in queued
browser_mailbox_observer(s, nc) ==
  IF nc.event_type # "NT_MAILBOX" THEN [s EXCEPT !.ret = 0]
  ELSE IF nc.event_subtype = "NT_MAILBOX_DELETE" THEN [s EXCEPT !.ret = 0]
  ELSE IF ~nc.global_data \/ nc.event_data = NULL THEN [s EXCEPT !.ret = -1]
  ELSE mailbox_changed(s, nc)

\* dlg_browser starts with the list of mailboxes or with a directory
BrowseMailboxes ==
  /\ \E list \in BOOLEAN :
       state' = [NoState EXCEPT !.made = TRUE, !.is_mailbox_list = list, !.op = "dlg_browser"]
  /\ UNCHANGED <<now, gmtoff, rdata, args, node, parsed_until, error, last, aborted,
                 call, prev, exp, qs, menu, dlg, exam>>

\* The browser lists one more mailbox, or one more file that is no mailbox
AddMailbox ==
  /\ state.made
  /\ Len(state.entry) < MaxMailboxes
  /\ \E m \in Mailboxes \cup {NULL} :
       state' = [browser_add_folder(TRUE, state, FileNames[Len(state.entry) + 1],
                                    IF m = NULL THEN NULL ELSE m[1].name,
                                    << [st_mode |-> "S_IFREG"] >>, m)
                   EXCEPT !.op = "browser_add_folder"]
  /\ UNCHANGED <<now, gmtoff, rdata, args, node, parsed_until, error, last, aborted,
                 call, prev, exp, qs, menu, dlg, exam>>

\* An event reaches the observer
MailboxObserver ==
  /\ state.made
  /\ \E nc \in MailboxEvents :
       state' = browser_mailbox_observer(
                  [state EXCEPT !.op = "observer", !.nc = <<nc>>, !.queued = {}], nc)
  /\ UNCHANGED <<now, gmtoff, rdata, args, node, parsed_until, error, last, aborted,
                 call, prev, exp, qs, menu, dlg, exam>>

NextObserver == BrowseMailboxes \/ AddMailbox \/ MailboxObserver

SpecObserver == InitParse /\ [][NextObserver]_vars

(* ------------------------------- C25 ------------------------------------ *)

\* The event of the call that led to the next state
Event == state'.nc[1]

\* The mailbox of that event
EventMailbox == Event.event_data[1].mailbox[1]

\* The first entry of the state with the gen of the mailbox, 0 if none
FirstWithGen(g) ==
  IF \E i \in 1..Len(state.entry) : state.entry[i].gen = g
  THEN CHOOSE i \in 1..Len(state.entry) :
         /\ state.entry[i].gen = g
         /\ \A j \in 1..(i - 1) : state.entry[j].gen # g
  ELSE 0

\* One call of the observer
ObserverStep ==
  (state'.op = "observer" /\ state' # state) =>
    /\ (Event.event_type # "NT_MAILBOX" \/ Event.event_subtype = "NT_MAILBOX_DELETE") =>
         /\ state'.ret = 0
         /\ state'.entry = state.entry
         /\ state'.queued = {}
    /\ (Event.event_type = "NT_MAILBOX" /\ Event.event_subtype # "NT_MAILBOX_DELETE"
          /\ (~Event.global_data \/ Event.event_data = NULL)) =>
         /\ state'.ret = -1
         /\ state'.entry = state.entry
         /\ state'.queued = {}
    /\ (Event.event_type = "NT_MAILBOX" /\ Event.event_subtype # "NT_MAILBOX_DELETE"
          /\ Event.global_data /\ Event.event_data # NULL) =>
         /\ state'.ret = 0
         /\ state'.queued = {"MENU_REDRAW_FULL"}
         /\ ~state.is_mailbox_list => state'.entry = state.entry
         /\ state.is_mailbox_list =>
              /\ Len(state'.entry) = Len(state.entry)
              /\ \A i \in 1..Len(state.entry) :
                   IF i = FirstWithGen(EventMailbox.gen)
                   THEN /\ state'.entry[i].has_new_mail = EventMailbox.has_new
                        /\ state'.entry[i].msg_count = EventMailbox.msg_count
                        /\ state'.entry[i].msg_unread = EventMailbox.msg_unread
                        /\ state'.entry[i].notify_user = EventMailbox.notify_user
                        /\ state'.entry[i].poll_new_mail = EventMailbox.poll_new_mail
                        /\ state'.entry[i].desc = EventMailbox.name
                        /\ state'.entry[i].name = state.entry[i].name
                        /\ state'.entry[i].gen = state.entry[i].gen
                        /\ state'.entry[i].mode = state.entry[i].mode
                        /\ state'.entry[i].tagged = state.entry[i].tagged
                   ELSE state'.entry[i] = state.entry[i]
    /\ state'.is_mailbox_list = state.is_mailbox_list

\* C25: browser_mailbox_observer, for an NT_MAILBOX event other than
\* NT_MAILBOX_DELETE with its data given, copies has_new, msg_count,
\* msg_unread, notify_user, poll_new_mail and the name (to desc) to the
\* first entry with the gen of the mailbox and to no other entry when the
\* browser shows the list of mailboxes, changes no entry when it does not,
\* and either way queues a full redraw and returns 0; for an event of
\* another type or NT_MAILBOX_DELETE it returns 0, changes no entry and
\* queues nothing; and for such an event without its data it returns -1
\* and changes nothing
C25_MailboxObserver == [][ObserverStep]_vars

\* two entries have the gen of the mailbox of the event: the first has got
\* its details, the second has not
C25_Witness ==
  /\ state.op = "observer"
  /\ state.is_mailbox_list
  /\ state.ret = 0 /\ state.queued = {"MENU_REDRAW_FULL"}
  /\ Len(state.entry) = 2
  /\ state.entry[1].gen = state.entry[2].gen
  /\ state.entry[1].gen = state.nc[1].event_data[1].mailbox[1].gen
  /\ state.entry[1].msg_unread = 1 /\ state.entry[1].desc = <<"work">>
  /\ state.entry[2].msg_unread = 0 /\ state.entry[2].desc = FileNames[2]

(* dlg_browser *)

\* Number of times the browser dialog is let to open
MaxRuns == 2

PATH_MAX == 4096

OP_NULL == 0

\* The values of km_dokey: an operation of the browser, of the menu or of
\* any dialog, OP_NULL for a key bound to nothing, and the negative values
\* for a timeout and an abort
Ops == { -2, -1, OP_NULL, 1, 2 }

\* The values a function dispatcher returns
FunctionRetvals == { "FR_UNKNOWN", "FR_SUCCESS", "FR_ERROR", "FR_NO_ACTION" }

\* The windows of the dialog
Windows == { "dlg", "win_menu", "sbar" }

\* buf_alloc: the buffer can hold new_size bytes
buf_alloc(buf, new_size) ==
  IF buf.dsize >= new_size THEN buf
  ELSE [data |-> IF buf.data = NULL THEN << "" >> ELSE buf.data, dsize |-> new_size]

\* buf_dealloc: the memory is released
buf_dealloc(buf) == BufferZero

\* Mutant: the buffers are allocated whenever they are not
init_lastdir_if_empty(d) ==
  [d EXCEPT !.LastDir = buf_alloc(@, PATH_MAX),
            !.LastDirBackup = buf_alloc(@, PATH_MAX),
            !.lastdir_done = TRUE,
            !.calls = @ + 1]

\* init_lastdir: the buffers are allocated unless the static done is set
\* (lastdir_done here; done is priv->done)
init_lastdir(d) ==
  IF ~d.lastdir_done
  THEN [d EXCEPT !.LastDir = buf_alloc(@, PATH_MAX),
                 !.LastDirBackup = buf_alloc(@, PATH_MAX),
                 !.lastdir_done = TRUE,
                 !.calls = @ + 1]
  ELSE [d EXCEPT !.calls = @ + 1]

\* mutt_browser_cleanup
mutt_browser_cleanup(d) ==
  [d EXCEPT !.LastDir = buf_dealloc(@), !.LastDirBackup = buf_dealloc(@)]

\* notify_observer_add: the callback is called with data for the events of
\* this type sent to notify
notify_observer_add(observers, notify, type, callback, data) ==
  observers \cup { [notify |-> notify, type |-> type, callback |-> callback,
                    data |-> data] }

\* notify_observer_remove
notify_observer_remove(observers, notify, callback, data) ==
  { o \in observers : ~(o.notify = notify /\ o.callback = callback /\ o.data = data) }

\* The three observers of dlg_browser, added with its private data
observers_added(observers, priv) ==
  notify_observer_add(
    notify_observer_add(
      notify_observer_add(observers, "NeoMutt->sub->notify", "NT_CONFIG",
                          "browser_config_observer", priv),
      "win_menu->notify", "NT_WINDOW", "browser_window_observer", priv),
    "NeoMutt->notify", "NT_MAILBOX", "browser_mailbox_observer", priv)

\* Mutant: the window observer leaves the mailbox observer in place
observers_removed_but_mailbox(observers, priv) ==
  notify_observer_remove(
    notify_observer_remove(observers, "NeoMutt->sub->notify",
                           "browser_config_observer", priv),
    "win_menu->notify", "browser_window_observer", priv)

\* The three observers, removed by the window observer
observers_removed(observers, priv) ==
  notify_observer_remove(
    notify_observer_remove(
      notify_observer_remove(observers, "NeoMutt->sub->notify",
                             "browser_config_observer", priv),
      "win_menu->notify", "browser_window_observer", priv),
    "NeoMutt->notify", "browser_mailbox_observer", priv)

\* browser_window_observer: the dialog after the call, with the event in nc
\* and the value returned in ret; global_data is the private data, NULL or
\* the number of the run that made it
browser_window_observer(d, nc) ==
  IF nc.event_type # "NT_WINDOW" THEN [d EXCEPT !.nc = <<nc>>, !.ret = 0]
  ELSE IF nc.global_data = NULL \/ nc.event_data = NULL
  THEN [d EXCEPT !.nc = <<nc>>, !.ret = -1]
  ELSE IF nc.event_subtype # "NT_WINDOW_DELETE" THEN [d EXCEPT !.nc = <<nc>>, !.ret = 0]
  ELSE IF nc.event_data[1].win # "win_menu" THEN [d EXCEPT !.nc = <<nc>>, !.ret = 0]
  ELSE [d EXCEPT !.nc = <<nc>>, !.ret = 0,
                 !.observers = observers_removed(@, nc.global_data)]

\* The events that reach the window observer while the dialog is open
WindowEvents ==
  { [event_type |-> t, event_subtype |-> u, global_data |-> g, event_data |-> e] :
      t \in { "NT_WINDOW", "NT_CONFIG" },
      u \in { "NT_WINDOW_DELETE", "NT_WINDOW_STATE", "NT_WINDOW_FOCUS" },
      g \in {NULL} \cup { <<r>> : r \in 1..MaxRuns },
      e \in {NULL} \cup { << [win |-> w] >> : w \in Windows } }

\* The event a window sends when it is freed
WindowDelete(win, priv) ==
  [event_type |-> "NT_WINDOW", event_subtype |-> "NT_WINDOW_DELETE",
   global_data |-> priv, event_data |-> << [win |-> win] >>]

\* simple_dialog_free: the windows of the dialog are freed; the menu window
\* tells its observers of it beforehand
simple_dialog_free(d) ==
  [(IF \E o \in d.observers : o.notify = "win_menu->notify" /\ o.type = "NT_WINDOW"
                                /\ o.callback = "browser_window_observer"
                                /\ o.data = d.priv
    THEN browser_window_observer(d, WindowDelete("win_menu", d.priv))
    ELSE d) EXCEPT !.dialog = FALSE]

\* dlg_browser up to the first list: the private data, the directories, the
\* dialog, the observers and the focus
dlg_browser_open(d, list) ==
  [init_lastdir(d) EXCEPT
     !.run = d.run + 1,
     !.priv = << d.run + 1 >>,
     !.done = FALSE,
     !.dialog = TRUE,
     !.observers = observers_added(@, << d.run + 1 >>),
     !.old_focus = d.focus,
     !.focus = "win_menu",
     !.op = OP_NULL, !.rc = "none", !.offered = <<>>, !.left = "none",
     !.nc = NULL, !.ret = 0,
     !.pc = IF list THEN "init_menu" ELSE "examine_directory"]

\* bail: the focus, the dialog and the private data
dlg_browser_bail(d) ==
  [simple_dialog_free([d EXCEPT !.focus = d.old_focus, !.nc = NULL])
     EXCEPT !.priv = NULL, !.pc = "none"]

\* Mutant: the op goes on to the next dispatcher whatever was returned
dispatched_to_all(d, name, rc, next) ==
  [d EXCEPT !.rc = rc,
            !.offered = Append(@, [dispatcher |-> name, op |-> d.op, rc |-> rc]),
            !.pc = next]

\* One dispatcher is offered the op and returns rc
dispatched(d, name, rc, next) ==
  [d EXCEPT !.rc = rc,
            !.offered = Append(@, [dispatcher |-> name, op |-> d.op, rc |-> rc]),
            !.pc = IF rc = "FR_UNKNOWN" THEN next ELSE "while"]

\* The rest of the state is left as it is
BrowserOnly ==
  UNCHANGED <<now, gmtoff, rdata, args, node, parsed_until, error, last, aborted,
              call, prev, exp, qs, menu, state, exam>>

\* dlg_browser is called, for the list of mailboxes or for a directory
DlgBrowser ==
  /\ dlg.pc = "none"
  /\ dlg.run < MaxRuns
  /\ \E list \in BOOLEAN : dlg' = dlg_browser_open(dlg, list)
  /\ BrowserOnly

\* examine_directory fails, or gives the entries of the directory
ExamineDirectory ==
  /\ dlg.pc = "examine_directory"
  /\ \E rc \in {0, -1} :
       dlg' = IF rc = -1 THEN [dlg EXCEPT !.pc = "bail", !.left = "examine_directory"]
              ELSE [dlg EXCEPT !.pc = "init_menu"]
  /\ BrowserOnly

\* init_menu, and the loop is entered with OP_NULL
InitMenu ==
  /\ dlg.pc = "init_menu"
  /\ dlg' = [dlg EXCEPT !.op = OP_NULL, !.pc = "km_dokey"]
  /\ BrowserOnly

\* The top of the loop: the op of the last turn goes to the tagging of the
\* menu, the windows are redrawn, and km_dokey gives the next op
GetKey ==
  /\ dlg.pc = "km_dokey"
  /\ \E op \in Ops :
       dlg' = [dlg EXCEPT !.op = op, !.rc = "none", !.offered = <<>>,
                          !.pc = IF op < 0 \/ op = OP_NULL THEN "while" ELSE "browser"]
  /\ BrowserOnly

\* browser_function_dispatcher: a function of the browser may end the dialog
BrowserDispatcher ==
  /\ dlg.pc = "browser"
  /\ \E rc \in FunctionRetvals, done \in BOOLEAN :
       /\ (done => rc # "FR_UNKNOWN")
       /\ dlg' = [dispatched(dlg, "browser", rc, "menu") EXCEPT !.done = @ \/ done]
  /\ BrowserOnly

\* menu_function_dispatcher
MenuDispatcher ==
  /\ dlg.pc = "menu"
  /\ \E rc \in FunctionRetvals : dlg' = dispatched(dlg, "menu", rc, "global")
  /\ BrowserOnly

\* global_function_dispatcher
GlobalDispatcher ==
  /\ dlg.pc = "global"
  /\ \E rc \in FunctionRetvals : dlg' = dispatched(dlg, "global", rc, "while")
  /\ BrowserOnly

\* while (!priv->done)
LoopWhile ==
  /\ dlg.pc = "while"
  /\ dlg' = IF dlg.done THEN [dlg EXCEPT !.pc = "bail", !.left = "done"]
            ELSE [dlg EXCEPT !.pc = "km_dokey"]
  /\ BrowserOnly

\* bail: the end of dlg_browser
Bail ==
  /\ dlg.pc = "bail"
  /\ dlg' = dlg_browser_bail(dlg)
  /\ BrowserOnly

\* An event reaches the window observer while the dialog is open; the
\* menu window is not freed before the dialog is
WindowObserver ==
  /\ dlg.pc \notin { "none", "bail" }
  /\ \E nc \in WindowEvents :
       /\ nc.global_data \in {NULL, dlg.priv}
       /\ nc # WindowDelete("win_menu", dlg.priv)
       /\ dlg' = browser_window_observer(dlg, nc)
  /\ BrowserOnly

\* mutt_browser_cleanup is called when no dialog is open
Cleanup ==
  /\ dlg.pc = "none"
  /\ dlg' = mutt_browser_cleanup(dlg)
  /\ BrowserOnly

NextDialog ==
  \/ DlgBrowser
  \/ ExamineDirectory
  \/ InitMenu
  \/ GetKey
  \/ BrowserDispatcher
  \/ MenuDispatcher
  \/ GlobalDispatcher
  \/ LoopWhile
  \/ Bail
  \/ WindowObserver
  \/ Cleanup

SpecDialog == InitParse /\ [][NextDialog]_vars

(* ---------------------------- C26 .. C28 --------------------------------- *)

\* The places of the event loop
LoopPlaces == { "km_dokey", "browser", "menu", "global", "while" }

\* The dispatchers in the order of the loop
Dispatchers == << "browser", "menu", "global" >>

\* The op of this turn of the loop has gone to the browser dispatcher, then
\* to the menu dispatcher if that returned FR_UNKNOWN, then to the global
\* dispatcher if that returned FR_UNKNOWN too; a negative op and OP_NULL
\* have gone to none
DispatchOrder ==
  /\ Len(dlg.offered) <= 3
  /\ \A i \in 1..Len(dlg.offered) :
       /\ dlg.offered[i].dispatcher = Dispatchers[i]
       /\ dlg.offered[i].op = dlg.op
       /\ dlg.op >= 0 /\ dlg.op # OP_NULL
       /\ i > 1 => dlg.offered[i - 1].rc = "FR_UNKNOWN"
  /\ dlg.pc = "while" =>
       IF dlg.op < 0 \/ dlg.op = OP_NULL THEN dlg.offered = <<>>
       ELSE /\ dlg.offered # <<>>
            /\ Len(dlg.offered) < 3 => dlg.offered[Len(dlg.offered)].rc # "FR_UNKNOWN"

\* The loop is left at its test only, with priv->done set
LoopExit ==
  (dlg.pc \in LoopPlaces /\ dlg'.pc \notin LoopPlaces) =>
    dlg.pc = "while" /\ dlg.done /\ dlg'.pc = "bail"

\* C26: in every turn of the event loop of dlg_browser an op that is not
\* negative and not OP_NULL is offered to the browser dispatcher first, to
\* the menu dispatcher only if the browser dispatcher returned FR_UNKNOWN,
\* and to the global dispatcher only if the menu dispatcher returned
\* FR_UNKNOWN too; a negative op or OP_NULL is offered to none of them; and
\* the loop is left only when priv->done is set
C26_DispatchOrder == [](DispatchOrder) /\ [][LoopExit]_vars

\* no dispatcher knew the op, and the loop goes on
C26_Witness ==
  /\ dlg.pc = "while"
  /\ Len(dlg.offered) = 3
  /\ dlg.offered[3].rc = "FR_UNKNOWN"
  /\ ~dlg.done

\* The observers dlg_browser adds with the private data priv
ThreeObservers(priv) ==
  { [notify |-> "NeoMutt->sub->notify", type |-> "NT_CONFIG",
     callback |-> "browser_config_observer", data |-> priv],
    [notify |-> "win_menu->notify", type |-> "NT_WINDOW",
     callback |-> "browser_window_observer", data |-> priv],
    [notify |-> "NeoMutt->notify", type |-> "NT_MAILBOX",
     callback |-> "browser_mailbox_observer", data |-> priv] }

\* The event says that the menu window of the dialog is deleted
OwnWindowDeleted(nc) ==
  /\ nc.event_type = "NT_WINDOW"
  /\ nc.event_subtype = "NT_WINDOW_DELETE"
  /\ nc.global_data # NULL
  /\ nc.event_data # NULL
  /\ nc.event_data[1].win = "win_menu"

\* The step calls the window observer: at the end of the dialog, or while
\* it is open
ObserverCalled ==
  \/ dlg.pc = "bail" /\ dlg'.nc # NULL
  \/ dlg.pc \notin {"none", "bail"} /\ dlg'.pc = dlg.pc /\ dlg' # dlg

\* The observers are added together, and removed together by the window
\* observer when the menu window is deleted and by nothing else
ObserversStep ==
  /\ dlg'.observers # dlg.observers =>
       \/ /\ dlg.pc = "none" /\ dlg'.pc # "none"
          /\ dlg'.observers = dlg.observers \cup ThreeObservers(dlg'.priv)
       \/ /\ ObserverCalled
          /\ OwnWindowDeleted(dlg'.nc[1])
  /\ ObserverCalled =>
       IF OwnWindowDeleted(dlg'.nc[1])
       THEN /\ dlg'.observers = dlg.observers \ ThreeObservers(dlg'.nc[1].global_data)
            /\ ThreeObservers(dlg'.nc[1].global_data) \subseteq dlg.observers
       ELSE dlg'.observers = dlg.observers
  /\ (dlg.pc = "bail" /\ dlg'.pc = "none") =>
       /\ dlg'.focus = dlg.old_focus
       /\ ~dlg'.dialog
       /\ dlg'.priv = NULL
       /\ \A o \in dlg'.observers : o.data # dlg.priv
  /\ (dlg.pc # "none" /\ dlg'.pc = "none") => dlg.pc = "bail"

\* Every observer is bound to the private data of the open dialog; with no
\* dialog there is no private data, no window and the focus of before
NoStaleObserver ==
  /\ \A o \in dlg.observers : dlg.priv # NULL /\ o.data = dlg.priv
  /\ dlg.pc \notin {"none"} => dlg.observers = ThreeObservers(dlg.priv) /\ dlg.dialog
  /\ dlg.pc = "none" =>
       dlg.priv = NULL /\ ~dlg.dialog /\ dlg.focus = "index" /\ dlg.observers = {}

LastDirStep ==
  /\ dlg'.calls = dlg.calls + 1 =>
       IF dlg.calls = 0
       THEN /\ dlg'.LastDir.data # NULL /\ dlg'.LastDir.dsize = PATH_MAX
            /\ dlg'.LastDirBackup.data # NULL /\ dlg'.LastDirBackup.dsize = PATH_MAX
       ELSE dlg'.LastDir = dlg.LastDir /\ dlg'.LastDirBackup = dlg.LastDirBackup
  /\ (dlg'.LastDir.data # NULL /\ dlg.LastDir.data = NULL) => dlg.calls = 0
  /\ (dlg'.LastDirBackup.data # NULL /\ dlg.LastDirBackup.data = NULL) => dlg.calls = 0
  /\ dlg.lastdir_done => dlg'.lastdir_done

Dirnames ==
  { Chars(""), Chars("/"), Chars("a"), Chars("/a"), Chars("a/b"), Chars("/a/b"),
    Chars("/a/"), Chars("//a"), Chars("a//b/c") }

\* What stat() finds: a directory, a file, or no file (ENOENT) or no
\* permission (EACCES), for which it returns -1
StatResults == { "S_IFDIR", "S_IFREG", "ENOENT", "EACCES" }

\* The names readdir gives, in its order: sequences of up to two of them
DirNames == { <<".">>, FileNames[1], FileNames[2] }

Listings ==
  { <<>> } \cup { <<n>> : n \in DirNames }
    \cup { l \in DirNames \X DirNames : l[1] # l[2] }

RECURSIVE strrchr_skip_last(_, _, _)
\* Mutant: the last byte of s is not looked at
strrchr_skip_last(s, c, i) ==
  IF i <= 1 THEN NULLPTR
  ELSE IF CharAt(s, i - 2) = c THEN i - 2
  ELSE strrchr_skip_last(s, c, i - 1)

RECURSIVE strrchr(_, _, _)
\* strrchr(s, c), c not NUL: the offset of the last c among the first i
\* bytes of s, NULLPTR if there is none; called with i = strlen(s)
strrchr(s, c, i) ==
  IF i = 0 THEN NULLPTR
  ELSE IF CharAt(s, i - 1) = c THEN i - 1
  ELSE strrchr(s, c, i - 1)

\* return rc at ed_out
examine_return(e, rc) == [e EXCEPT !.rc = rc, !.pc = "return"]

\* stat() has failed with this errno: the parent directory is tried when
\* the file is missing and the path has a '/' after its first byte
examine_missing(e, errno) ==
  IF errno = "ENOENT" /\ strrchr(e.dirname, "/", Len(e.dirname)) # NULLPTR
       /\ strrchr(e.dirname, "/", Len(e.dirname)) > 0
  THEN [e EXCEPT !.st = errno,
                 !.dirname = SubSeq(@, 1, strrchr(e.dirname, "/", Len(e.dirname)))]
  ELSE examine_return([e EXCEPT !.st = errno], -1)

\* One turn of while (stat(dirname, &st) == -1), and the test of S_ISDIR
\* after it
examine_stat(e, r) ==
  IF r \in { "ENOENT", "EACCES" } THEN examine_missing(e, r)
  ELSE IF ~S_ISDIR(r) THEN examine_return([e EXCEPT !.st = r], -1)
  ELSE [e EXCEPT !.st = r, !.pc = "opendir"]

\* init_state: no entries
init_state(e) == [e EXCEPT !.entry = <<>>, !.inited = TRUE]

RECURSIVE examine_readdir(_, _, _)
\* while ((de = readdir(dir))): the files but "." are added to the entries
examine_readdir(e, listing, i) ==
  IF i > Len(listing) THEN e
  ELSE IF listing[i] = <<".">> THEN examine_readdir(e, listing, i + 1)
  ELSE examine_readdir(
         browser_add_folder(TRUE, e, listing[i], NULL, << [st_mode |-> "S_IFREG"] >>, NULL),
         listing, i + 1)

\* The place of a name in the order of the browser
NameRank(name) == CHOOSE i \in 1..Len(FileNames) : FileNames[i] = name

RECURSIVE sort_insert(_, _, _)
\* The sorted entries with ff put at its place, from the place i on
sort_insert(entry, ff, i) ==
  IF i > Len(entry) THEN Append(entry, ff)
  ELSE IF NameRank(ff.name) < NameRank(entry[i].name)
  THEN SubSeq(entry, 1, i - 1) \o <<ff>> \o SubSeq(entry, i, Len(entry))
  ELSE sort_insert(entry, ff, i + 1)

RECURSIVE sort_entries(_, _)
sort_entries(entry, n) ==
  IF n = 0 THEN <<>> ELSE sort_insert(sort_entries(entry, n - 1), entry[n], 1)

\* browser_sort: the entries in the order of the browser
browser_sort(e) == [e EXCEPT !.entry = sort_entries(@, Len(@))]

\* The directory is opened and read, or cannot be opened
examine_opendir(e, opened, listing) ==
  IF ~opened THEN examine_return(e, -1)
  ELSE examine_return(browser_sort(examine_readdir(init_state(e), listing, 1)), 0)

\* The entry of examine_directory: int rc = -1, and the list of newsgroups
\* or the directory
examine_directory(e, news, dirname) ==
  [e EXCEPT !.OptNews = news, !.dirname = dirname, !.st = "none", !.rc = -1,
            !.inited = FALSE, !.pc = IF news THEN "groups" ELSE "stat"]

\* The rest of the state is left as it is
ExamineOnly ==
  UNCHANGED <<now, gmtoff, rdata, args, node, parsed_until, error, last, aborted,
              call, prev, exp, qs, menu, state, dlg>>

\* examine_directory is called
Examine ==
  /\ exam.pc \in { "none", "return" }
  /\ \E news \in BOOLEAN, dirname \in Dirnames :
       exam' = examine_directory(exam, news, dirname)
  /\ ExamineOnly

\* stat() returns
Stat ==
  /\ exam.pc = "stat"
  /\ \E r \in StatResults : exam' = examine_stat(exam, r)
  /\ ExamineOnly

\* The directory is read to its end
ReadDirectory ==
  /\ exam.pc = "opendir"
  /\ \E opened \in BOOLEAN, listing \in Listings :
       exam' = examine_opendir(exam, opened, listing)
  /\ ExamineOnly

\* The newsgroups of the server are listed
Newsgroups ==
  /\ exam.pc = "groups"
  /\ \E listing \in Listings :
       exam' = examine_return(browser_sort(examine_readdir(init_state(exam), listing, 1)), 0)
  /\ ExamineOnly

NextExamine == Examine \/ Stat \/ ReadDirectory \/ Newsgroups

\* A call that has begun runs on: stat() returns, the directory is read
SpecExamine ==
  /\ InitParse
  /\ [][NextExamine]_vars
  /\ WF_vars(Stat) /\ WF_vars(ReadDirectory) /\ WF_vars(Newsgroups)

(* ------------------------------- C29 ------------------------------------ *)

\* The entries are in the order of the browser
Sorted(entry) ==
  \A i, j \in 1..Len(entry) : i < j => NameRank(entry[i].name) <= NameRank(entry[j].name)

\* The path has a '/' that is not its first byte
HasParent(dirname) == \E i \in 2..Len(dirname) : dirname[i] = "/"

\* One return of stat(): the parent is tried for a missing file with a
\* parent in its path, and the path is cut at its last '/'; -1 is returned
\* for any other failure and for a file that is no directory
StatStep ==
  (exam.pc = "stat" /\ exam' # exam) =>
    /\ (exam'.st = "ENOENT" /\ HasParent(exam.dirname)) =>
         /\ exam'.pc = "stat"
         /\ Len(exam'.dirname) < Len(exam.dirname)
         /\ Len(exam'.dirname) > 0
         /\ exam'.dirname = SubSeq(exam.dirname, 1, Len(exam'.dirname))
         /\ exam.dirname[Len(exam'.dirname) + 1] = "/"
         /\ \A i \in (Len(exam'.dirname) + 2)..Len(exam.dirname) : exam.dirname[i] # "/"
    /\ (exam'.st = "EACCES" \/ (exam'.st = "ENOENT" /\ ~HasParent(exam.dirname))
          \/ exam'.st = "S_IFREG") =>
         /\ exam'.pc = "return" /\ exam'.rc = -1
         /\ exam'.dirname = exam.dirname
    /\ exam'.st = "S_IFDIR" => exam'.pc = "opendir" /\ exam'.dirname = exam.dirname
    /\ exam'.entry = exam.entry /\ ~exam'.inited

\* One return of examine_directory: -1 with the browser state as it was, or
\* 0 with the entries read and sorted
ReturnStep ==
  (exam.pc # "return" /\ exam'.pc = "return") =>
    /\ exam'.rc \in {0, -1}
    /\ exam'.rc = -1 => exam'.entry = exam.entry /\ ~exam'.inited
    /\ exam'.rc = 0 => exam'.inited /\ Sorted(exam'.entry)
    /\ exam'.rc = 0 => (exam.OptNews \/ exam.st = "S_IFDIR")

\* C29: the fallback of examine_directory for a missing directory ends:
\* while stat fails with ENOENT and dirname has a '/' that is not its first
\* byte, dirname is cut at its last '/', so it is shorter at every retry,
\* and the parent is tried; when stat fails for another reason, or no such
\* '/' is left, or the path is no directory, -1 is returned and the browser
\* state is neither initialised nor added to; on success 0 is returned and
\* the entries are sorted
C29_FallbackEnds ==
  /\ [][StatStep]_vars
  /\ [][ReturnStep]_vars
  /\ (exam.pc = "stat" ~> exam.pc = "return")

\* the path was cut twice, then its directory was read and sorted
C29_Witness ==
  /\ exam.pc = "return"
  /\ exam.rc = 0
  /\ ~exam.OptNews
  /\ exam.dirname = Chars("a")
  /\ Len(exam.entry) = 2

====
